---------------------------- MODULE Spec2Model ----------------------------
(***************************************************************************)
(* Model of the SCP chat server (tp8/src/bin/serveur.rs) together with     *)
(* the parts of the protocol module (tp8/src/protocole.rs) it relies on.   *)
(*                                                                         *)
(* The directory (ServerState) is a record W with the fields of the Rust   *)
(* struct plus the two halves of every client's mpsc channel:              *)
(*   clients            ClientId -> Client             (HashMap)           *)
(*   rooms              RoomId   -> Room               (HashMap)           *)
(*   username_to_client String   -> ClientId           (HashMap)           *)
(*   client_senders     the ClientIds that own an UnboundedSender          *)
(*   queue              ClientId -> frames sent on the client's channel    *)
(*                      (in send order, as the writer task receives them)  *)
(*   rx                 the ClientIds whose UnboundedReceiver still lives  *)
(* Option<T> is modelled as a tuple: None = <<>>, Some(x) = <<x>>.         *)
(* In the server the timestamps (Utc::now()) and the display name of a     *)
(* room are left out.                                                      *)
(*                                                                         *)
(* codec holds the locals of a caller of the protocol module's pure        *)
(* functions (a frame, its encoding, the result of decoding or validating  *)
(* it); the server leaves it alone.                                        *)
(*                                                                         *)
(* socket[c] is what the writer task of c has written to c's stream, frame *)
(* by frame. lock is the RwLock around the directory: its writer, if any,  *)
(* and its readers. result[c] is the error frame the handler of c is      *)
(* about to send once it has the read lock (the Err of process_message,    *)
(* or a protocol-level error) and whether the reader loop ends after it.   *)
(***************************************************************************)
EXTENDS Integers, Sequences, FiniteSets, TLC

VARIABLES clients, rooms, username_to_client, client_senders, queue, rx,
          pc, buffer, nevents, codec, socket, lock, result,
          client_state, client_tasks

vars == <<clients, rooms, username_to_client, client_senders, queue, rx,
          pc, buffer, nevents, codec, socket, lock, result,
          client_state, client_tasks>>

-----------------------------------------------------------------------------
(* Bounds of the model *)

NumClients == 2
MaxEvents == 2

(* Program constants *)

PROTOCOL_VERSION == 1
MAX_MESSAGE_SIZE == 65536

ClientIds == 1..NumClients
RoomIds == {"general", "tech", "random"}

(* Inputs a client may put in its requests *)
Usernames == {"alice", "bob"}
RoomInputs == {"general", "tech", "inconnu"}
Contents == {"hi"}

None == <<>>
Some(x) == <<x>>
Unwrap(o) == o[1]

Range(f) == {f[x] : x \in DOMAIN f}
MapInsert(m, k, v) == [x \in DOMAIN m \cup {k} |-> IF x = k THEN v ELSE m[x]]
MapRemove(m, k) == [x \in DOMAIN m \ {k} |-> m[x]]
EmptyMap == [x \in {} |-> 0]

-----------------------------------------------------------------------------
(* protocole.rs *)

Connected == [tag |-> "Connected"]
Authenticated(u) == [tag |-> "Authenticated", username |-> u]
InRoom(u, r) == [tag |-> "InRoom", username |-> u, room_id |-> r]

ClientToServer ==
  {"Connect", "JoinRoom", "LeaveRoom", "SendMessage", "PrivateMessage",
   "ListRooms", "ListUsers", "Disconnect", "Ping"}

(* Mutant: ListRooms forgotten in requires_auth *)
requires_auth_without_list_rooms(m) ==
  m.type \in {"JoinRoom", "LeaveRoom", "SendMessage", "PrivateMessage",
              "ListUsers", "Disconnect"}

requires_auth(m) ==
  m.type \in {"JoinRoom", "LeaveRoom", "SendMessage", "PrivateMessage",
              "ListRooms", "ListUsers", "Disconnect"}

(* Mutant: SendMessage forgotten in requires_room *)
requires_room_list_only(m) == m.type \in {"ListUsers"}

requires_room(m) == m.type \in {"SendMessage", "ListUsers"}

ProtocolFrame_new(message, session_id, sequence) ==
  [version |-> PROTOCOL_VERSION, session_id |-> session_id,
   sequence |-> sequence, message |-> message]

(* Mutant: a frame of exactly MAX_MESSAGE_SIZE bytes is refused *)
validate_below_limit(frame) ==
  IF frame.version # PROTOCOL_VERSION
  THEN [ok |-> FALSE, err |-> <<"Version de protocole non supportee">>]
  ELSE IF frame.size >= MAX_MESSAGE_SIZE
  THEN [ok |-> FALSE, err |-> <<"Message trop volumineux">>]
  ELSE [ok |-> TRUE]

(* validate(): the version, then the length of the frame's encoding. The   *)
(* encoded length of a received frame is carried by the frame (size).      *)
(* A Result is [ok |-> TRUE, ...] or [ok |-> FALSE, err |-> e]; an error   *)
(* string built by format! is the tuple of its pieces.                     *)
validate(frame) ==
  IF frame.version # PROTOCOL_VERSION
  THEN [ok |-> FALSE, err |-> <<"Version de protocole non supportee">>]
  ELSE IF frame.size > MAX_MESSAGE_SIZE
  THEN [ok |-> FALSE, err |-> <<"Message trop volumineux">>]
  ELSE [ok |-> TRUE]

Room_new(id) == [id |-> id, users |-> EmptyMap]
add_user(room, client_id, username) ==
  [room EXCEPT !.users = MapInsert(@, client_id, username)]
remove_user(room, client_id) ==
  [room EXCEPT !.users = MapRemove(@, client_id)]
(* Vec<String> of the map's values, in the map's iteration order: modelled *)
(* up to order, as the bag username -> number of occurrences.              *)
get_usernames(room) ==
  [u \in Range(room.users) |->
     Cardinality({c \in DOMAIN room.users : room.users[c] = u})]
user_count(room) == Cardinality(DOMAIN room.users)

-----------------------------------------------------------------------------
(* serveur.rs: Client and ServerState *)

Client_new(id) ==
  [id |-> id, username |-> None, current_room |-> None,
   session_state |-> Connected, sequence_number |-> 0]

ServerState_new ==
  [clients |-> EmptyMap,
   rooms |-> [r \in RoomIds |-> Room_new(r)],
   username_to_client |-> EmptyMap,
   client_senders |-> {},
   queue |-> [c \in ClientIds |-> <<>>],
   rx |-> {}]

(* UnboundedSender::send: fails once the receiver is dropped *)
send_ok(W, client_id) == client_id \in W.rx
send(W, client_id, frame) ==
  IF send_ok(W, client_id)
  THEN [W EXCEPT !.queue[client_id] = Append(@, frame)]
  ELSE W

(* handle_client creates the channel, then registers the client *)
add_client(W, client_id) ==
  [W EXCEPT !.clients = MapInsert(@, client_id, Client_new(client_id)),
            !.client_senders = @ \cup {client_id},
            !.rx = @ \cup {client_id}]

send_message_to_client(W, client_id, message) ==
  IF client_id \in W.client_senders
  THEN send(W, client_id, ProtocolFrame_new(message, Some(client_id), 0))
  ELSE W

(* Mutant: the excluded client is sent the frame too *)
broadcast_to_room_everyone(W, room_id, message_frame, exclude_client) ==
  IF room_id \in DOMAIN W.rooms
  THEN [W EXCEPT !.queue =
          [c \in DOMAIN @ |->
             IF /\ c \in DOMAIN W.rooms[room_id].users
                /\ c \in W.client_senders
                /\ send_ok(W, c)
             THEN Append(@[c], message_frame)
             ELSE @[c]]]
  ELSE W

broadcast_to_room(W, room_id, message_frame, exclude_client) ==
  IF room_id \in DOMAIN W.rooms
  THEN [W EXCEPT !.queue =
          [c \in DOMAIN @ |->
             IF /\ c \in DOMAIN W.rooms[room_id].users
                /\ exclude_client # Some(c)
                /\ c \in W.client_senders
                /\ send_ok(W, c)
             THEN Append(@[c], message_frame)
             ELSE @[c]]]
  ELSE W

UserLeft(username, room_id) ==
  [type |-> "UserLeft", username |-> username, room_id |-> room_id]

(* Mutant: the username is left in the registry *)
remove_client_keep_username(W, client_id) ==
  LET W1 ==
        IF client_id \in DOMAIN W.clients
        THEN LET client == W.clients[client_id]
                 Wa == W
             IN IF /\ client.current_room # None
                   /\ Unwrap(client.current_room) \in DOMAIN Wa.rooms
                   /\ client_id \in
                        DOMAIN Wa.rooms[Unwrap(client.current_room)].users
                THEN LET room_id == Unwrap(client.current_room)
                         Wb == [Wa EXCEPT !.rooms[room_id] =
                                            remove_user(@, client_id)]
                         name == IF client.username # None
                                 THEN Unwrap(client.username)
                                 ELSE "un client anonyme"
                     IN broadcast_to_room(Wb, room_id,
                          ProtocolFrame_new(UserLeft(name, room_id), None, 0),
                          Some(client_id))
                ELSE IF /\ client.current_room # None
                        /\ Unwrap(client.current_room) \in DOMAIN Wa.rooms
                     THEN [Wa EXCEPT !.rooms[Unwrap(client.current_room)] =
                                       remove_user(@, client_id)]
                     ELSE Wa
        ELSE W
  IN [W1 EXCEPT !.clients = MapRemove(@, client_id),
                !.client_senders = @ \ {client_id}]

(* Mutant: the room of the removed client is not told *)
remove_client_silent(W, client_id) ==
  LET W1 ==
        IF client_id \in DOMAIN W.clients
        THEN LET client == W.clients[client_id]
                 Wa == IF client.username # None
                       THEN [W EXCEPT !.username_to_client =
                                        MapRemove(@, Unwrap(client.username))]
                       ELSE W
             IN IF /\ client.current_room # None
                   /\ Unwrap(client.current_room) \in DOMAIN Wa.rooms
                   /\ client_id \in
                        DOMAIN Wa.rooms[Unwrap(client.current_room)].users
                THEN LET room_id == Unwrap(client.current_room)
                         Wb == [Wa EXCEPT !.rooms[room_id] =
                                            remove_user(@, client_id)]
                         name == IF client.username # None
                                 THEN Unwrap(client.username)
                                 ELSE "un client anonyme"
                     IN Wb
                ELSE IF /\ client.current_room # None
                        /\ Unwrap(client.current_room) \in DOMAIN Wa.rooms
                     THEN [Wa EXCEPT !.rooms[Unwrap(client.current_room)] =
                                       remove_user(@, client_id)]
                     ELSE Wa
        ELSE W
  IN [W1 EXCEPT !.clients = MapRemove(@, client_id),
                !.client_senders = @ \ {client_id}]

remove_client(W, client_id) ==
  LET W1 ==
        IF client_id \in DOMAIN W.clients
        THEN LET client == W.clients[client_id]
                 Wa == IF client.username # None
                       THEN [W EXCEPT !.username_to_client =
                                        MapRemove(@, Unwrap(client.username))]
                       ELSE W
             IN IF /\ client.current_room # None
                   /\ Unwrap(client.current_room) \in DOMAIN Wa.rooms
                   /\ client_id \in
                        DOMAIN Wa.rooms[Unwrap(client.current_room)].users
                THEN LET room_id == Unwrap(client.current_room)
                         Wb == [Wa EXCEPT !.rooms[room_id] =
                                            remove_user(@, client_id)]
                         name == IF client.username # None
                                 THEN Unwrap(client.username)
                                 ELSE "un client anonyme"
                     IN broadcast_to_room(Wb, room_id,
                          ProtocolFrame_new(UserLeft(name, room_id), None, 0),
                          Some(client_id))
                ELSE IF /\ client.current_room # None
                        /\ Unwrap(client.current_room) \in DOMAIN Wa.rooms
                     THEN [Wa EXCEPT !.rooms[Unwrap(client.current_room)] =
                                       remove_user(@, client_id)]
                     ELSE Wa
        ELSE W
  IN [W1 EXCEPT !.clients = MapRemove(@, client_id),
                !.client_senders = @ \ {client_id}]

Ok(W) == [ok |-> TRUE, W |-> W]
Err(W, e) == [ok |-> FALSE, W |-> W, err |-> e]

(* Mutant: the registry is not consulted *)
authenticate_client_unchecked(W, client_id, username) ==
  IF FALSE
  THEN Err(W, <<"Nom d'utilisateur deja pris">>)
  ELSE IF client_id \in DOMAIN W.clients
       THEN IF W.clients[client_id].session_state.tag # "Connected"
            THEN Err(W, <<"Action non autorisee. Client deja dans l'etat">>)
            ELSE Ok([W EXCEPT
                       !.clients[client_id].username = Some(username),
                       !.clients[client_id].session_state =
                          Authenticated(username),
                       !.username_to_client =
                          MapInsert(@, username, client_id)])
       ELSE Err(W, <<"Client non trouve">>)

(* Mutant: the registry entry is written before the name is found taken *)
authenticate_client_insert_first(W, client_id, username) ==
  IF username \in DOMAIN W.username_to_client
  THEN Err([W EXCEPT !.username_to_client =
                    MapInsert(@, username, client_id)],
           <<"Nom d'utilisateur deja pris">>)
  ELSE IF client_id \in DOMAIN W.clients
       THEN IF W.clients[client_id].session_state.tag # "Connected"
            THEN Err(W, <<"Action non autorisee. Client deja dans l'etat">>)
            ELSE Ok([W EXCEPT
                       !.clients[client_id].username = Some(username),
                       !.clients[client_id].session_state =
                          Authenticated(username),
                       !.username_to_client =
                          MapInsert(@, username, client_id)])
       ELSE Err(W, <<"Client non trouve">>)

(* Mutant: the session is updated before the name is found taken *)
authenticate_client_late_check(W, client_id, username) ==
  IF client_id \in DOMAIN W.clients
  THEN IF W.clients[client_id].session_state.tag # "Connected"
       THEN Err(W, <<"Action non autorisee. Client deja dans l'etat">>)
       ELSE LET W1 == [W EXCEPT
                         !.clients[client_id].username = Some(username),
                         !.clients[client_id].session_state =
                            Authenticated(username)]
            IN IF username \in DOMAIN W.username_to_client
               THEN Err(W1, <<"Nom d'utilisateur deja pris">>)
               ELSE Ok([W1 EXCEPT !.username_to_client =
                                    MapInsert(@, username, client_id)])
  ELSE Err(W, <<"Client non trouve">>)

authenticate_client(W, client_id, username) ==
  IF username \in DOMAIN W.username_to_client
  THEN Err(W, <<"Nom d'utilisateur deja pris">>)
  ELSE IF client_id \in DOMAIN W.clients
       THEN IF W.clients[client_id].session_state.tag # "Connected"
            THEN Err(W, <<"Action non autorisee. Client deja dans l'etat">>)
            ELSE Ok([W EXCEPT
                       !.clients[client_id].username = Some(username),
                       !.clients[client_id].session_state =
                          Authenticated(username),
                       !.username_to_client =
                          MapInsert(@, username, client_id)])
       ELSE Err(W, <<"Client non trouve">>)

(* Mutant: the client is not removed from the room it leaves *)
join_room_keep_old(W, client_id, room_id) ==
  IF client_id \notin DOMAIN W.clients THEN Err(W, <<"Client non trouve">>)
  ELSE IF W.clients[client_id].username = None
  THEN Err(W, <<"Client non authentifie">>)
  ELSE IF room_id \notin DOMAIN W.rooms THEN Err(W, <<"Salon inexistant">>)
  ELSE
    LET username == Unwrap(W.clients[client_id].username)
        old == W.clients[client_id].current_room
        (* client.current_room.take() *)
        W1 == [W EXCEPT !.clients[client_id].current_room = None]
        W2 == IF old # None /\ Unwrap(old) \in DOMAIN W1.rooms
              THEN broadcast_to_room(W1, Unwrap(old),
                     ProtocolFrame_new(UserLeft(username, Unwrap(old)),
                                       None, 0),
                     Some(client_id))
              ELSE W1
        W3 == [W2 EXCEPT
                 !.clients[client_id].current_room = Some(room_id),
                 !.clients[client_id].session_state =
                    InRoom(username, room_id),
                 !.rooms[room_id] = add_user(@, client_id, username)]
    IN [ok |-> TRUE, W |-> W3, users |-> get_usernames(W3.rooms[room_id])]

(* Mutant: the current room is left before the new room is looked up *)
join_room_leave_first(W, client_id, room_id) ==
  IF client_id \notin DOMAIN W.clients THEN Err(W, <<"Client non trouve">>)
  ELSE IF W.clients[client_id].username = None
  THEN Err(W, <<"Client non authentifie">>)
  ELSE
    LET username == Unwrap(W.clients[client_id].username)
        old == W.clients[client_id].current_room
        W1 == [W EXCEPT !.clients[client_id].current_room = None]
        W2 == IF old # None /\ Unwrap(old) \in DOMAIN W1.rooms
              THEN broadcast_to_room(
                     [W1 EXCEPT !.rooms[Unwrap(old)] =
                                  remove_user(@, client_id)],
                     Unwrap(old),
                     ProtocolFrame_new(UserLeft(username, Unwrap(old)),
                                       None, 0),
                     Some(client_id))
              ELSE W1
    IN IF room_id \notin DOMAIN W.rooms
       THEN Err(W2, <<"Salon inexistant">>)
       ELSE LET W3 == [W2 EXCEPT
                         !.clients[client_id].current_room = Some(room_id),
                         !.clients[client_id].session_state =
                            InRoom(username, room_id),
                         !.rooms[room_id] = add_user(@, client_id, username)]
            IN [ok |-> TRUE, W |-> W3,
                users |-> get_usernames(W3.rooms[room_id])]

(* Mutant: the room that is left is not told *)
join_room_silent(W, client_id, room_id) ==
  IF client_id \notin DOMAIN W.clients THEN Err(W, <<"Client non trouve">>)
  ELSE IF W.clients[client_id].username = None
  THEN Err(W, <<"Client non authentifie">>)
  ELSE IF room_id \notin DOMAIN W.rooms THEN Err(W, <<"Salon inexistant">>)
  ELSE
    LET username == Unwrap(W.clients[client_id].username)
        old == W.clients[client_id].current_room
        (* client.current_room.take() *)
        W1 == [W EXCEPT !.clients[client_id].current_room = None]
        W2 == IF old # None /\ Unwrap(old) \in DOMAIN W1.rooms
              THEN [W1 EXCEPT !.rooms[Unwrap(old)] =
                                remove_user(@, client_id)]
              ELSE W1
        W3 == [W2 EXCEPT
                 !.clients[client_id].current_room = Some(room_id),
                 !.clients[client_id].session_state =
                    InRoom(username, room_id),
                 !.rooms[room_id] = add_user(@, client_id, username)]
    IN [ok |-> TRUE, W |-> W3, users |-> get_usernames(W3.rooms[room_id])]

join_room(W, client_id, room_id) ==
  IF client_id \notin DOMAIN W.clients THEN Err(W, <<"Client non trouve">>)
  ELSE IF W.clients[client_id].username = None
  THEN Err(W, <<"Client non authentifie">>)
  ELSE IF room_id \notin DOMAIN W.rooms THEN Err(W, <<"Salon inexistant">>)
  ELSE
    LET username == Unwrap(W.clients[client_id].username)
        old == W.clients[client_id].current_room
        (* client.current_room.take() *)
        W1 == [W EXCEPT !.clients[client_id].current_room = None]
        W2 == IF old # None /\ Unwrap(old) \in DOMAIN W1.rooms
              THEN broadcast_to_room(
                     [W1 EXCEPT !.rooms[Unwrap(old)] =
                                  remove_user(@, client_id)],
                     Unwrap(old),
                     ProtocolFrame_new(UserLeft(username, Unwrap(old)),
                                       None, 0),
                     Some(client_id))
              ELSE W1
        W3 == [W2 EXCEPT
                 !.clients[client_id].current_room = Some(room_id),
                 !.clients[client_id].session_state =
                    InRoom(username, room_id),
                 !.rooms[room_id] = add_user(@, client_id, username)]
    IN [ok |-> TRUE, W |-> W3, users |-> get_usernames(W3.rooms[room_id])]

(* Mutant: the session state is not reverted to Authenticated *)
leave_room_keep_state(W, client_id) ==
  IF client_id \notin DOMAIN W.clients THEN Err(W, <<"Client non trouve">>)
  ELSE IF W.clients[client_id].username = None
  THEN Err(W, <<"Client non authentifie">>)
  ELSE
    LET username == Unwrap(W.clients[client_id].username)
        old == W.clients[client_id].current_room
    IN IF old # None
       THEN LET room_id == Unwrap(old)
                W1 == [W EXCEPT !.clients[client_id].current_room = None]
                W2 == IF room_id \in DOMAIN W1.rooms
                      THEN [W1 EXCEPT !.rooms[room_id] =
                                        remove_user(@, client_id)]
                      ELSE W1
            IN Ok(broadcast_to_room(W2, room_id,
                    ProtocolFrame_new(UserLeft(username, room_id), None, 0),
                    Some(client_id)))
       ELSE Err(W, <<"Vous n'etes pas dans un salon">>)

(* Mutant: the leaver stays in the member map of the room *)
leave_room_keep_member(W, client_id) ==
  IF client_id \notin DOMAIN W.clients THEN Err(W, <<"Client non trouve">>)
  ELSE IF W.clients[client_id].username = None
  THEN Err(W, <<"Client non authentifie">>)
  ELSE
    LET username == Unwrap(W.clients[client_id].username)
        old == W.clients[client_id].current_room
    IN IF old # None
       THEN LET room_id == Unwrap(old)
                W1 == [W EXCEPT
                         !.clients[client_id].current_room = None,
                         !.clients[client_id].session_state =
                            Authenticated(username)]
                W2 == W1
            IN Ok(broadcast_to_room(W2, room_id,
                    ProtocolFrame_new(UserLeft(username, room_id), None, 0),
                    Some(client_id)))
       ELSE Err(W, <<"Vous n'etes pas dans un salon">>)

leave_room(W, client_id) ==
  IF client_id \notin DOMAIN W.clients THEN Err(W, <<"Client non trouve">>)
  ELSE IF W.clients[client_id].username = None
  THEN Err(W, <<"Client non authentifie">>)
  ELSE
    LET username == Unwrap(W.clients[client_id].username)
        old == W.clients[client_id].current_room
    IN IF old # None
       THEN LET room_id == Unwrap(old)
                W1 == [W EXCEPT
                         !.clients[client_id].current_room = None,
                         !.clients[client_id].session_state =
                            Authenticated(username)]
                W2 == IF room_id \in DOMAIN W1.rooms
                      THEN [W1 EXCEPT !.rooms[room_id] =
                                        remove_user(@, client_id)]
                      ELSE W1
            IN Ok(broadcast_to_room(W2, room_id,
                    ProtocolFrame_new(UserLeft(username, room_id), None, 0),
                    Some(client_id)))
       ELSE Err(W, <<"Vous n'etes pas dans un salon">>)

(* Mutant: the frame names the recipient as its author *)
send_private_message_from_target(W, from_username, to_username, content) ==
  IF to_username \notin DOMAIN W.username_to_client
  THEN Err(W, <<"Utilisateur destinataire non trouve">>)
  ELSE LET to_client_id == W.username_to_client[to_username]
       IN IF to_client_id \in W.client_senders
          THEN IF send_ok(W, to_client_id)
               THEN Ok(send(W, to_client_id,
                         ProtocolFrame_new(
                           [type |-> "PrivateMessageReceived",
                            from |-> to_username, content |-> content],
                           Some(to_client_id), 0)))
               ELSE Err(W, <<"Error sending private message to channel">>)
          ELSE Err(W, <<"Unable to send message: Sender not found">>)

(* Mutant: the result of send is dropped *)
send_private_message_unchecked_send(W, from_username, to_username, content) ==
  IF to_username \notin DOMAIN W.username_to_client
  THEN Err(W, <<"Utilisateur destinataire non trouve">>)
  ELSE LET to_client_id == W.username_to_client[to_username]
       IN IF to_client_id \in W.client_senders
          THEN IF send_ok(W, to_client_id)
               THEN Ok(send(W, to_client_id,
                         ProtocolFrame_new(
                           [type |-> "PrivateMessageReceived",
                            from |-> from_username, content |-> content],
                           Some(to_client_id), 0)))
               ELSE Ok(W)
          ELSE Err(W, <<"Unable to send message: Sender not found">>)

send_private_message(W, from_username, to_username, content) ==
  IF to_username \notin DOMAIN W.username_to_client
  THEN Err(W, <<"Utilisateur destinataire non trouve">>)
  ELSE LET to_client_id == W.username_to_client[to_username]
       IN IF to_client_id \in W.client_senders
          THEN IF send_ok(W, to_client_id)
               THEN Ok(send(W, to_client_id,
                         ProtocolFrame_new(
                           [type |-> "PrivateMessageReceived",
                            from |-> from_username, content |-> content],
                           Some(to_client_id), 0)))
               ELSE Err(W, <<"Error sending private message to channel">>)
          ELSE Err(W, <<"Unable to send message: Sender not found">>)

-----------------------------------------------------------------------------
(* serveur.rs: ChatServer. A handler returns [ok, W] or [ok, W, err].      *)

Error(code, message) == [type |-> "Error", code |-> code, message |-> message]

IsAuth(session_state) == session_state.tag \in {"Authenticated", "InRoom"}

(* Mutant: a Connect passes the check whatever the session state *)
precheck_connect_unchecked(W, frame, client_id) ==
  LET v == validate(frame) IN
  IF ~v.ok THEN Err(W, v.err)
  ELSE IF client_id \notin DOMAIN W.clients
  THEN Err(W, <<"Client not found in server state (internal error)">>)
  ELSE
    LET st == W.clients[client_id].session_state
        reject(text) ==
          Err(send_message_to_client(W, client_id,
                Error("InvalidState", <<text, st.tag>>)),
              <<text, st.tag>>)
    IN IF frame.message.type = "Connect"
       THEN Ok(W)
       ELSE IF requires_auth(frame.message) /\ ~IsAuth(st)
            THEN reject("Authentication required for this action. Current state")
            ELSE IF requires_room(frame.message) /\ st.tag # "InRoom"
                 THEN reject("Requires being in a room. Current state")
                 ELSE Ok(W)

(* process_message, up to drop(client_state_guard): validation and the     *)
(* precondition checks, under the read lock                                *)
precheck(W, frame, client_id) ==
  LET v == validate(frame) IN
  IF ~v.ok THEN Err(W, v.err)
  ELSE IF client_id \notin DOMAIN W.clients
  THEN Err(W, <<"Client not found in server state (internal error)">>)
  ELSE
    LET st == W.clients[client_id].session_state
        reject(text) ==
          Err(send_message_to_client(W, client_id,
                Error("InvalidState", <<text, st.tag>>)),
              <<text, st.tag>>)
    IN IF frame.message.type = "Connect"
       THEN IF st.tag # "Connected"
            THEN reject("Already connected or authenticated. Current state")
            ELSE Ok(W)
       ELSE IF requires_auth(frame.message) /\ ~IsAuth(st)
            THEN reject("Authentication required for this action. Current state")
            ELSE IF requires_room(frame.message) /\ st.tag # "InRoom"
                 THEN reject("Requires being in a room. Current state")
                 ELSE Ok(W)

handle_connect(W, client_id, username) ==
  LET r == authenticate_client(W, client_id, username) IN
  IF r.ok
  THEN Ok(send_message_to_client(r.W, client_id,
            [type |-> "ConnectAck", client_id |-> client_id,
             message |-> <<"Bienvenue, ", username, " !">>]))
  ELSE Err(send_message_to_client(r.W, client_id,
             [type |-> "ConnectError", reason |-> r.err]),
           r.err)

(* Mutant: the joiner is not excluded from the UserJoined broadcast *)
handle_join_room_notify_all(W, client_id, room_id) ==
  LET r == join_room(W, client_id, room_id) IN
  IF r.ok
  THEN LET W1 == send_message_to_client(r.W, client_id,
                   [type |-> "JoinRoomAck", room_id |-> room_id,
                    users |-> r.users])
       IN IF /\ client_id \in DOMAIN W1.clients
             /\ W1.clients[client_id].username # None
          THEN Ok(broadcast_to_room(W1, room_id,
                    ProtocolFrame_new(
                      [type |-> "UserJoined",
                       username |-> Unwrap(W1.clients[client_id].username),
                       room_id |-> room_id],
                      None, 0),
                    None))
          ELSE Ok(W1)
  ELSE Err(send_message_to_client(r.W, client_id,
             [type |-> "JoinRoomError", reason |-> r.err]),
           r.err)

(* Mutant: the room is not told of the newcomer *)
handle_join_room_unannounced(W, client_id, room_id) ==
  LET r == join_room(W, client_id, room_id) IN
  IF r.ok
  THEN Ok(send_message_to_client(r.W, client_id,
            [type |-> "JoinRoomAck", room_id |-> room_id,
             users |-> r.users]))
  ELSE Err(send_message_to_client(r.W, client_id,
             [type |-> "JoinRoomError", reason |-> r.err]),
           r.err)

handle_join_room(W, client_id, room_id) ==
  LET r == join_room(W, client_id, room_id) IN
  IF r.ok
  THEN LET W1 == send_message_to_client(r.W, client_id,
                   [type |-> "JoinRoomAck", room_id |-> room_id,
                    users |-> r.users])
       IN IF /\ client_id \in DOMAIN W1.clients
             /\ W1.clients[client_id].username # None
          THEN Ok(broadcast_to_room(W1, room_id,
                    ProtocolFrame_new(
                      [type |-> "UserJoined",
                       username |-> Unwrap(W1.clients[client_id].username),
                       room_id |-> room_id],
                      None, 0),
                    Some(client_id)))
          ELSE Ok(W1)
  ELSE Err(send_message_to_client(r.W, client_id,
             [type |-> "JoinRoomError", reason |-> r.err]),
           r.err)

handle_leave_room(W, client_id) ==
  LET r == leave_room(W, client_id) IN
  IF r.ok THEN Ok(r.W)
  ELSE Err(send_message_to_client(r.W, client_id,
             Error("InvalidState", r.err)),
           r.err)

(* Mutant: the sender is left out of the broadcast *)
handle_send_message_to_others(W, client_id, content) ==
  IF client_id \notin DOMAIN W.clients THEN Err(W, <<"Client not found">>)
  ELSE LET client == W.clients[client_id] IN
    IF client.username = None THEN Err(W, <<"Client not authenticated">>)
    ELSE IF client.current_room = None THEN Err(W, <<"Client not in a room">>)
    ELSE LET room_id == Unwrap(client.current_room)
         IN Ok(broadcast_to_room(W, room_id,
                 ProtocolFrame_new(
                   [type |-> "RoomMessage",
                    from |-> Unwrap(client.username),
                    content |-> content, room_id |-> room_id],
                   None, 0),
                 Some(client_id)))

handle_send_message(W, client_id, content) ==
  IF client_id \notin DOMAIN W.clients THEN Err(W, <<"Client not found">>)
  ELSE LET client == W.clients[client_id] IN
    IF client.username = None THEN Err(W, <<"Client not authenticated">>)
    ELSE IF client.current_room = None THEN Err(W, <<"Client not in a room">>)
    ELSE LET room_id == Unwrap(client.current_room)
         IN Ok(broadcast_to_room(W, room_id,
                 ProtocolFrame_new(
                   [type |-> "RoomMessage",
                    from |-> Unwrap(client.username),
                    content |-> content, room_id |-> room_id],
                   None, 0),
                 None))

(* Mutant: the target is not compared with the sender *)
handle_private_message_to_anyone(W, client_id, target_user, content) ==
  IF client_id \notin DOMAIN W.clients THEN Err(W, <<"Client not found">>)
  ELSE LET client == W.clients[client_id] IN
    IF client.username = None THEN Err(W, <<"Client not authenticated">>)
    ELSE IF FALSE
    THEN LET e == <<"You cannot send a private message to yourself.">>
         IN Err(send_message_to_client(W, client_id,
                  Error("InvalidState", e)), e)
    ELSE LET r == send_private_message(W, Unwrap(client.username),
                                       target_user, content)
         IN IF r.ok THEN Ok(r.W)
            ELSE Err(send_message_to_client(r.W, client_id,
                       Error("UserNotFound", r.err)),
                     r.err)

handle_private_message(W, client_id, target_user, content) ==
  IF client_id \notin DOMAIN W.clients THEN Err(W, <<"Client not found">>)
  ELSE LET client == W.clients[client_id] IN
    IF client.username = None THEN Err(W, <<"Client not authenticated">>)
    ELSE IF Unwrap(client.username) = target_user
    THEN LET e == <<"You cannot send a private message to yourself.">>
         IN Err(send_message_to_client(W, client_id,
                  Error("InvalidState", e)), e)
    ELSE LET r == send_private_message(W, Unwrap(client.username),
                                       target_user, content)
         IN IF r.ok THEN Ok(r.W)
            ELSE Err(send_message_to_client(r.W, client_id,
                       Error("UserNotFound", r.err)),
                     r.err)

(* Mutant: the empty rooms are left out of the list *)
handle_list_rooms_occupied(W, client_id) ==
  Ok(send_message_to_client(W, client_id,
       [type |-> "RoomList",
        rooms |-> [r \in {x \in DOMAIN W.rooms : user_count(W.rooms[x]) > 0}
                     |-> user_count(W.rooms[r])]]))

handle_list_rooms(W, client_id) ==
  Ok(send_message_to_client(W, client_id,
       [type |-> "RoomList",
        rooms |-> [r \in DOMAIN W.rooms |-> user_count(W.rooms[r])]]))

handle_list_users(W, client_id) ==
  IF client_id \notin DOMAIN W.clients THEN Err(W, <<"Client not found">>)
  ELSE LET client == W.clients[client_id] IN
    IF client.current_room = None THEN Err(W, <<"Client not in a room">>)
    ELSE LET room_id == Unwrap(client.current_room) IN
      IF room_id \in DOMAIN W.rooms
      THEN Ok(send_message_to_client(W, client_id,
                [type |-> "UserList",
                 users |-> get_usernames(W.rooms[room_id]),
                 room_id |-> room_id]))
      ELSE Ok(send_message_to_client(W, client_id,
                Error("InternalError", <<"Room not found for user list.">>)))

handle_ping(W, client_id) ==
  Ok(send_message_to_client(W, client_id, [type |-> "Pong"]))

(* Mutant: a message of the wrong direction is dropped without an answer *)
dispatch_unexpected_ignored(W, frame, client_id) ==
  LET m == frame.message IN
  CASE m.type = "Connect" -> handle_connect(W, client_id, m.username)
    [] m.type = "JoinRoom" -> handle_join_room(W, client_id, m.room_id)
    [] m.type = "LeaveRoom" -> handle_leave_room(W, client_id)
    [] m.type = "SendMessage" -> handle_send_message(W, client_id, m.content)
    [] m.type = "PrivateMessage" ->
         handle_private_message(W, client_id, m.target_user, m.content)
    [] m.type = "ListRooms" -> handle_list_rooms(W, client_id)
    [] m.type = "ListUsers" -> handle_list_users(W, client_id)
    [] m.type = "Disconnect" -> Ok(W)
    [] m.type = "Ping" -> handle_ping(W, client_id)
    [] OTHER ->
         LET e == <<"Unexpected message type received from client", m.type>>
         IN Ok(W)

(* process_message after the read lock is released: the dispatch *)
dispatch(W, frame, client_id) ==
  LET m == frame.message IN
  CASE m.type = "Connect" -> handle_connect(W, client_id, m.username)
    [] m.type = "JoinRoom" -> handle_join_room(W, client_id, m.room_id)
    [] m.type = "LeaveRoom" -> handle_leave_room(W, client_id)
    [] m.type = "SendMessage" -> handle_send_message(W, client_id, m.content)
    [] m.type = "PrivateMessage" ->
         handle_private_message(W, client_id, m.target_user, m.content)
    [] m.type = "ListRooms" -> handle_list_rooms(W, client_id)
    [] m.type = "ListUsers" -> handle_list_users(W, client_id)
    [] m.type = "Disconnect" -> Ok(W)
    [] m.type = "Ping" -> handle_ping(W, client_id)
    [] OTHER ->
         LET e == <<"Unexpected message type received from client", m.type>>
         IN Err(send_message_to_client(W, client_id,
                  Error("InvalidFormat", e)), e)

(* handle_client: `if let Err(e) = self.process_message(..)` sends the     *)
(* client an InternalError frame that quotes e                             *)
report(r, client_id) ==
  IF r.ok THEN r.W
  ELSE send_message_to_client(r.W, client_id,
         Error("InternalError", <<"Processing error">> \o r.err))

-----------------------------------------------------------------------------
(* The state machine: one connection handler (handle_client) per ClientId. *)
(* pc[c]: "idle"     no connection accepted for c yet                      *)
(*        "reading"  in the reader loop, waiting for the next frame        *)
(*        "checked"  in process_message, preconditions passed, read lock   *)
(*                   released, the dispatch not yet run                    *)
(*        "cleanup"  reader loop left, send_task.abort() called, waiting   *)
(*                   for the write lock to run remove_client               *)
(*        "closed"   handle_client has returned                            *)
(* buffer[c] is the frame decoded last from the handler's read buffer,     *)
(* which keeps it until the next frame is read.                            *)
(* Every section of code that runs under the directory lock has no         *)
(* suspension point inside it and is one step.                             *)
(* nevents counts what the connections brought in (connections accepted,   *)
(* frames read, reads that failed).                                        *)

World ==
  [clients |-> clients, rooms |-> rooms,
   username_to_client |-> username_to_client,
   client_senders |-> client_senders, queue |-> queue, rx |-> rx]

Commit(W) ==
  /\ clients' = W.clients
  /\ rooms' = W.rooms
  /\ username_to_client' = W.username_to_client
  /\ client_senders' = W.client_senders
  /\ queue' = W.queue
  /\ rx' = W.rx

Messages ==
  [type : {"Connect"}, username : Usernames]
    \cup [type : {"JoinRoom"}, room_id : RoomInputs]
    \cup [type : {"SendMessage"}, content : Contents]
    \cup [type : {"PrivateMessage"}, target_user : Usernames,
          content : Contents]
    \cup {[type |-> t] :
            t \in {"LeaveRoom", "ListRooms", "ListUsers", "Disconnect",
                   "Ping", "Pong"}}

(* Frames a client can make the server decode. The session id, sequence    *)
(* and timestamp of a received frame are never read by the server.         *)
Frames ==
  {[version |-> PROTOCOL_VERSION, size |-> MAX_MESSAGE_SIZE, message |-> m] :
     m \in Messages}
    \cup {[version |-> PROTOCOL_VERSION + 1, size |-> MAX_MESSAGE_SIZE,
           message |-> [type |-> "Ping"]]}

(* No caller of the pure functions is at work *)
CodecIdle == [stage |-> "idle"]

(* RwLock::new: nobody holds the lock *)
LockFree == [writer |-> None, readers |-> {}]

(* No handler holds an error it has yet to report *)
NoResult == [c \in ClientIds |-> None]

(* client.rs: the reference client. A String that comes out of a parse is *)
(* a sequence of pieces; Text(u) is the String u.                          *)
Text(u) == <<u>>

Closed == [tag |-> "Closed"]

ClientLocalState_new ==
  [id |-> None, username |-> None, current_room |-> None,
   session_state |-> Connected]

(* message.split("Bienvenue, ").last().trim_end_matches('!'): what follows *)
(* the greeting, less the '!' at its end                                   *)
welcome_username(message) ==
  LET tail == SubSeq(message, 2, Len(message))
  IN IF tail[Len(tail)] = " !"
     THEN SubSeq(tail, 1, Len(tail) - 1) \o <<" ">>
     ELSE tail

(* handle_server_message, less what it prints *)
handle_server_message(state, frame) ==
  LET m == frame.message IN
  CASE m.type = "ConnectAck" ->
         LET username == welcome_username(m.message) IN
         [state EXCEPT !.id = Some(m.client_id),
                       !.username = Some(username),
                       !.session_state = Authenticated(username)]
    [] m.type = "ConnectError" -> [state EXCEPT !.session_state = Closed]
    [] m.type = "JoinRoomAck" ->
         IF state.username # None
         THEN [state EXCEPT
                 !.current_room = Some(m.room_id),
                 !.session_state = InRoom(Unwrap(state.username), m.room_id)]
         ELSE [state EXCEPT !.current_room = Some(m.room_id)]
    [] OTHER -> state

(* The client state after the frames of a sequence were handled in order *)
RECURSIVE MirrorFrom(_, _)
MirrorFrom(state, frames) ==
  IF frames = <<>> THEN state
  ELSE MirrorFrom(handle_server_message(state, Head(frames)), Tail(frames))

Mirror(frames) == MirrorFrom(ClientLocalState_new, frames)

(* main: the input loop reads lines, send_task and receive_task run, the   *)
(* command channel is empty, nothing was written to the server and no      *)
(* frame of the server was handled                                         *)
ClientTasks_new ==
  [input |-> "reading", send_task |-> "running", receive_task |-> "running",
   rx_commands |-> <<>>, sent |-> <<>>, received |-> 0, typed |-> 0]

(* The directory after some connections were accepted and went through     *)
(* Connect and JoinRoom, and every writer task has written its queue out.  *)
(* A script says how far each connection went; the names the clients asked *)
(* for are fixed, the code treating every name alike.                      *)
Stages == {"idle", "Connected", "Authenticated", "InRoom"}
Scripts == [ClientIds -> Stages]
InitUsername(c) == IF c % 2 = 1 THEN "alice" ELSE "bob"
InitRoom == "general"

Setup(W, c, stage) ==
  LET W1 == add_client(W, c)
      W2 == handle_connect(W1, c, InitUsername(c)).W
      W3 == handle_join_room(W2, c, InitRoom).W
  IN CASE stage = "idle" -> W
       [] stage = "Connected" -> W1
       [] stage = "Authenticated" -> W2
       [] stage = "InRoom" -> W3

RECURSIVE Build(_, _)
Build(script, n) ==
  IF n = 0 THEN ServerState_new
  ELSE Setup(Build(script, n - 1), n, script[n])

Drained(W) == [W EXCEPT !.queue = [c \in DOMAIN @ |-> <<>>]]

Init ==
  \E script \in Scripts :
    LET W == Drained(Build(script, NumClients)) IN
    /\ clients = W.clients
    /\ rooms = W.rooms
    /\ username_to_client = W.username_to_client
    /\ client_senders = W.client_senders
    /\ queue = W.queue
    /\ rx = W.rx
    /\ pc = [c \in ClientIds |->
               IF script[c] = "idle" THEN "idle" ELSE "reading"]
    /\ buffer = [c \in ClientIds |-> None]
    /\ nevents = 0
    /\ codec = CodecIdle
    /\ socket = [c \in ClientIds |-> <<>>]
    /\ lock = LockFree
    /\ result = NoResult
    /\ client_state =
         [c \in ClientIds |-> Mirror(Build(script, NumClients).queue[c])]
    /\ client_tasks = [c \in ClientIds |-> ClientTasks_new]

(* handle_client: the channel is created and the client registered *)
Accept(c) ==
  /\ pc[c] = "idle"
  /\ nevents < MaxEvents
  /\ nevents' = nevents + 1
  /\ Commit(add_client(World, c))
  /\ pc' = [pc EXCEPT ![c] = "reading"]
  /\ UNCHANGED <<buffer, codec, socket, lock, result>>
  /\ UNCHANGED <<client_state, client_tasks>>

(* Mutant: a failed check ends the reader loop *)
ReadFrame_break_on_error(c, frame) ==
  /\ pc[c] = "reading"
  /\ nevents < MaxEvents
  /\ ~(frame.size > MAX_MESSAGE_SIZE)
  /\ nevents' = nevents + 1
  /\ buffer' = [buffer EXCEPT ![c] = Some(frame)]
  /\ UNCHANGED <<codec, socket, lock, result>>
  /\ LET r == precheck(World, frame, c) IN
     IF r.ok
     THEN /\ pc' = [pc EXCEPT ![c] = "checked"]
          /\ UNCHANGED <<clients, rooms, username_to_client, client_senders,
                         queue, rx>>
     ELSE /\ Commit(report(r, c))
          /\ pc' = [pc EXCEPT ![c] = "cleanup"]
  /\ UNCHANGED <<client_state, client_tasks>>

(* A frame is read and decoded; process_message validates it and checks    *)
(* its preconditions. A failure is reported and the loop goes on.          *)
ReadExact(c, frame) ==
  /\ pc[c] = "reading"
  /\ nevents < MaxEvents
  /\ ~(frame.size > MAX_MESSAGE_SIZE)
  /\ nevents' = nevents + 1
  /\ buffer' = [buffer EXCEPT ![c] = Some(frame)]
  /\ UNCHANGED <<codec, socket, lock, result>>
  /\ LET r == precheck(World, frame, c) IN
     IF r.ok
     THEN /\ pc' = [pc EXCEPT ![c] = "checked"]
          /\ UNCHANGED <<clients, rooms, username_to_client, client_senders,
                         queue, rx>>
     ELSE /\ Commit(report(r, c))
          /\ UNCHANGED pc

(* The frame comes from a peer that is not modelled further *)
ReadFrame(c, frame) ==
  /\ ReadExact(c, frame)
  /\ UNCHANGED <<client_state, client_tasks>>

(* process_message dispatches the frame; handle_client reports an Err *)
Process(c) ==
  /\ pc[c] = "checked"
  /\ LET r == dispatch(World, Unwrap(buffer[c]), c) IN
     /\ Commit(report(r, c))
  /\ pc' = [pc EXCEPT ![c] = "reading"]
  /\ UNCHANGED <<buffer, nevents, codec, socket, lock, result>>
  /\ UNCHANGED <<client_state, client_tasks>>

(* Mutant: the limit itself is refused *)
ReadOversize_at_limit(c, length) ==
  /\ pc[c] = "reading"
  /\ nevents < MaxEvents
  /\ nevents' = nevents + 1
  /\ length >= MAX_MESSAGE_SIZE
  /\ Commit(send_message_to_client(World, c,
       Error("MessageTooLarge", <<"Message too large", length>>)))
  /\ pc' = [pc EXCEPT ![c] = "cleanup"]
  /\ UNCHANGED <<buffer, codec, socket, lock, result>>
  /\ UNCHANGED <<client_state, client_tasks>>

(* A length prefix above MAX_MESSAGE_SIZE: an error is sent, the loop left *)
ReadOversize(c, length) ==
  /\ pc[c] = "reading"
  /\ nevents < MaxEvents
  /\ nevents' = nevents + 1
  /\ length > MAX_MESSAGE_SIZE
  /\ Commit(send_message_to_client(World, c,
       Error("MessageTooLarge", <<"Message too large", length>>)))
  /\ pc' = [pc EXCEPT ![c] = "cleanup"]
  /\ UNCHANGED <<buffer, codec, socket, lock, result>>
  /\ UNCHANGED <<client_state, client_tasks>>

(* A payload that does not decode: an error is sent, the loop left *)
ReadUndecodable(c) ==
  /\ pc[c] = "reading"
  /\ nevents < MaxEvents
  /\ nevents' = nevents + 1
  /\ Commit(send_message_to_client(World, c,
       Error("InvalidFormat", <<"Invalid message format">>)))
  /\ pc' = [pc EXCEPT ![c] = "cleanup"]
  /\ UNCHANGED <<buffer, codec, socket, lock, result>>
  /\ UNCHANGED <<client_state, client_tasks>>

(* read_exact fails (the peer closed the connection): the loop is left *)
ReadFailed(c) ==
  /\ pc[c] = "reading"
  /\ nevents < MaxEvents
  /\ nevents' = nevents + 1
  /\ pc' = [pc EXCEPT ![c] = "cleanup"]
  /\ UNCHANGED <<clients, rooms, username_to_client, client_senders, queue,
                 rx, buffer, codec, socket, lock, result>>
  /\ UNCHANGED <<client_state, client_tasks>>

(* send_task.abort() takes effect: the task is dropped and with it the     *)
(* receiver of the client's channel                                        *)
SendTaskAborted(c) ==
  /\ pc[c] = "cleanup"
  /\ c \in rx
  /\ rx' = rx \ {c}
  /\ UNCHANGED <<clients, rooms, username_to_client, client_senders, queue,
                 pc, buffer, nevents, codec, socket, lock, result>>
  /\ UNCHANGED <<client_state, client_tasks>>

(* Cleanup under the write lock; the channel goes with its sender *)
Cleanup(c) ==
  /\ pc[c] = "cleanup"
  /\ LET W == remove_client(World, c) IN
     Commit([W EXCEPT !.rx = @ \ {c}])
  /\ pc' = [pc EXCEPT ![c] = "closed"]
  /\ UNCHANGED <<buffer, nevents, codec, socket, lock, result>>
  /\ UNCHANGED <<client_state, client_tasks>>

Next ==
  \E c \in ClientIds :
    \/ Accept(c)
    \/ \E frame \in Frames : ReadFrame(c, frame)
    \/ Process(c)
    \/ ReadFailed(c)
    \/ SendTaskAborted(c)
    \/ Cleanup(c)

Spec == Init /\ [][Next]_vars

-----------------------------------------------------------------------------
(* Vocabulary of the properties *)

Sessions == DOMAIN clients
State(c) == clients[c].session_state
Holds(c, u) == c \in Sessions /\ IsAuth(State(c)) /\ State(c).username = u
Members(r) == DOMAIN rooms[r].users
Msgs(c) == [i \in DOMAIN queue[c] |-> queue[c][i].message]
(* What a step sent on c's channel (a channel only grows here) *)
Appended(c) == SubSeq(queue'[c], Len(queue[c]) + 1, Len(queue'[c]))
Indices(seq, type) == {i \in DOMAIN seq : seq[i].message.type = type}
Directory == <<clients, rooms, username_to_client>>
Decoded(c, type) ==
  buffer[c] # None /\ validate(Unwrap(buffer[c])).ok
    /\ Unwrap(buffer[c]).message.type = type
Request(c) == Unwrap(buffer[c]).message
NomDejaPris == <<"Nom d'utilisateur deja pris">>
SalonInexistant == <<"Salon inexistant">>

(* C1: in every reachable state, for every username u, at most one        *)
(* session is Authenticated(u) or InRoom(u, _), whatever the interleaving  *)
(* of the handlers between the precondition check and the write lock.      *)
C1_OneSessionPerUsername ==
  \A u \in Usernames : \A c, d \in Sessions :
    Holds(c, u) /\ Holds(d, u) => c = d

(* Two handlers are past the Connect precondition check for the same name, *)
(* one has authenticated, the other has not taken the write lock yet.      *)
C1_Witness ==
  \E c, d \in Sessions : \E u \in Usernames :
    /\ c # d
    /\ pc[c] = "checked" /\ Decoded(c, "Connect") /\ Request(c).username = u
    /\ pc[d] = "reading" /\ Decoded(d, "Connect") /\ Request(d).username = u
    /\ Holds(d, u)
    /\ Indices(queue[d], "ConnectAck") # {}

C3_SessionFieldsAgree ==
  \A c \in Sessions :
    LET cl == clients[c] IN
    /\ (cl.username # None) <=> IsAuth(cl.session_state)
    /\ IsAuth(cl.session_state) =>
         cl.username = Some(cl.session_state.username)
    /\ (cl.current_room # None) <=> (cl.session_state.tag = "InRoom")
    /\ cl.session_state.tag = "InRoom" =>
         cl.current_room = Some(cl.session_state.room_id)

(* A session that joined a room and one that left a room, in this run *)
C3_Witness ==
  \E c, d \in Sessions :
    /\ State(c).tag = "InRoom" /\ pc[c] = "reading" /\ Decoded(c, "JoinRoom")
    /\ Indices(queue[c], "JoinRoomAck") # {}
    /\ State(d).tag = "Authenticated" /\ pc[d] = "reading"
    /\ Decoded(d, "LeaveRoom")
    /\ Indices(queue[c], "UserLeft") # {}

(* C4: a client id is in the member map of at most one room, and it is in  *)
(* room r's map, with its own username, iff its session exists and has     *)
(* current_room = r.                                                       *)
C4_MembershipAgrees ==
  /\ \A c \in ClientIds : \A r1, r2 \in DOMAIN rooms :
       c \in Members(r1) /\ c \in Members(r2) => r1 = r2
  /\ \A c \in ClientIds : \A r \in DOMAIN rooms :
       c \in Members(r) <=>
         (c \in Sessions /\ clients[c].current_room = Some(r))
  /\ \A r \in DOMAIN rooms : \A c \in Members(r) :
       clients[c].username = Some(rooms[r].users[c])

(* A client that changed rooms while another member stayed behind *)
C4_Witness ==
  \E c, d \in Sessions :
    /\ c # d
    /\ pc[c] = "reading" /\ Decoded(c, "JoinRoom")
    /\ c \in Members("tech") /\ d \in Members("general")
    /\ \E i \in Indices(queue[d], "UserLeft") :
         queue[d][i].message.username = Unwrap(clients[c].username)

(* C5: the registry maps u to c iff session c exists and is                *)
(* Authenticated(u) or InRoom(u, _).                                       *)
C5_RegistryAgrees ==
  /\ DOMAIN username_to_client \subseteq Usernames
  /\ \A u \in Usernames : \A c \in ClientIds :
       (u \in DOMAIN username_to_client /\ username_to_client[u] = c)
         <=> Holds(c, u)

(* An authenticated session was removed, another authenticated in the run *)
C5_Witness ==
  \E c, d \in ClientIds :
    /\ pc[c] = "closed" /\ c \notin Sessions
    /\ d \in Sessions
    /\ \E i \in Indices(queue[d], "UserLeft") :
         queue[d][i].message.username \notin DOMAIN username_to_client

(* C6: JoinRoom naming a room that does not exist returns JoinRoomError    *)
(* and changes nothing: no session, no member map, no other client's       *)
(* queue, also when the caller is in a room (it stays a member, no         *)
(* UserLeft is sent).                                                      *)
C6_UnknownRoomChangesNothing ==
  [][\A c \in ClientIds :
       ( /\ Process(c)
         /\ Decoded(c, "JoinRoom")
         /\ Request(c).room_id \notin DOMAIN rooms )
       =>
       ( /\ Len(Appended(c)) >= 1
         /\ Appended(c)[1].message =
              [type |-> "JoinRoomError", reason |-> SalonInexistant]
         /\ Indices(Appended(c), "JoinRoomAck") = {}
         /\ clients' = clients
         /\ rooms' = rooms
         /\ username_to_client' = username_to_client
         /\ \A d \in ClientIds \ {c} : queue'[d] = queue[d] )]_vars

(* The caller is in a room with another member when its JoinRoom fails *)
C6_Witness ==
  \E c, d \in Sessions :
    /\ c # d
    /\ pc[c] = "reading" /\ Decoded(c, "JoinRoom")
    /\ Request(c).room_id \notin DOMAIN rooms
    /\ \E r \in DOMAIN rooms : c \in Members(r) /\ d \in Members(r)
    /\ \E i \in Indices(queue[c], "JoinRoomError") :
         queue[c][i].message.reason = SalonInexistant

(* The step of c's handler that moves it from room A to another, existing  *)
(* room B                                                                  *)
Moves(c, A, B) ==
  /\ Process(c)
  /\ Decoded(c, "JoinRoom")
  /\ clients[c].current_room = Some(A)
  /\ Request(c).room_id = B
  /\ B \in DOMAIN rooms
  /\ A # B

LeftNotices(seq, u, A) ==
  {i \in DOMAIN seq : seq[i].message = UserLeft(u, A)}

MovedTo(c, A, B) ==
  /\ Indices(Appended(c), "UserLeft") = {}
  /\ c \in DOMAIN rooms'[B].users
  /\ get_usernames(rooms'[B])[Unwrap(clients[c].username)] = 1
  /\ \A r \in DOMAIN rooms \ {B} : c \notin DOMAIN rooms'[r].users

(* C7, as claimed: when a client in room A joins a different room B, each  *)
(* other member of A receives exactly one UserLeft for that client and A,  *)
(* the client itself none, and afterwards the client is a member of B      *)
(* once and not of A.                                                      *)
C7_EveryMemberNotified ==
  [][\A c \in ClientIds : \A A, B \in DOMAIN rooms :
       Moves(c, A, B) =>
         /\ \A m \in Members(A) \ {c} :
              /\ Cardinality(LeftNotices(Appended(m),
                               Unwrap(clients[c].username), A)) = 1
              /\ Cardinality(Indices(Appended(m), "UserLeft")) = 1
         /\ MovedTo(c, A, B)]_vars

(* C7, amended: each other member of A whose channel is still open (its    *)
(* receiver not dropped) receives exactly one UserLeft for that client and *)
(* A, a member whose receiver is dropped receives nothing; the client      *)
(* itself receives none and ends a member of B once and not of A.          *)
C7_LiveMembersNotified ==
  [][\A c \in ClientIds : \A A, B \in DOMAIN rooms :
       Moves(c, A, B) =>
         /\ \A m \in Members(A) \ {c} :
              IF m \in rx
              THEN /\ Cardinality(LeftNotices(Appended(m),
                                    Unwrap(clients[c].username), A)) = 1
                   /\ Cardinality(Indices(Appended(m), "UserLeft")) = 1
              ELSE queue'[m] = queue[m]
         /\ MovedTo(c, A, B)]_vars

(* A client moved from general to tech; the member left behind holds one   *)
(* UserLeft, the mover holds its JoinRoomAck and no UserLeft.              *)
C7_Witness ==
  \E c, d \in Sessions :
    /\ c # d
    /\ pc[c] = "reading" /\ Decoded(c, "JoinRoom")
    /\ Request(c).room_id = "tech"
    /\ State(c).tag = "InRoom" /\ State(c).room_id = "tech"
    /\ d \in Members("general") /\ d \in rx
    /\ Cardinality(LeftNotices(queue[d], Unwrap(clients[c].username),
                               "general")) = 1
    /\ Indices(queue[c], "JoinRoomAck") # {}
    /\ Indices(queue[c], "UserLeft") = {}

(* C8: a SendMessage from a session that is not InRoom is rejected with an *)
(* Error frame carrying InvalidState; it is not dispatched and no          *)
(* RoomMessage is sent to any client.                                      *)
C8_SendOutsideRoomRejected ==
  [][\A c \in ClientIds : \A f \in Frames :
       ( /\ ReadFrame(c, f)
         /\ validate(f).ok
         /\ f.message.type = "SendMessage"
         /\ State(c).tag # "InRoom" )
       =>
       ( /\ Len(Appended(c)) >= 1
         /\ Appended(c)[1].message.type = "Error"
         /\ Appended(c)[1].message.code = "InvalidState"
         /\ pc'[c] = "reading"
         /\ \A d \in ClientIds : Indices(Appended(d), "RoomMessage") = {} )]_vars

C8_Witness ==
  \E c \in Sessions :
    /\ pc[c] = "reading" /\ Decoded(c, "SendMessage")
    /\ State(c).tag = "Authenticated"
    /\ Len(queue[c]) >= 2
    /\ queue[c][Len(queue[c]) - 1].message.type = "Error"
    /\ queue[c][Len(queue[c]) - 1].message.code = "InvalidState"
    /\ \A d \in ClientIds : Indices(queue[d], "RoomMessage") = {}

(* A step in which the request of c's handler is rejected: the precondition*)
(* check of a valid frame fails, or the dispatched operation returns Err.  *)
Rejected(c) ==
  \/ \E f \in Frames :
       /\ ReadFrame(c, f)
       /\ validate(f).ok
       /\ ~precheck(World, f, c).ok
  \/ /\ Process(c)
     /\ ~dispatch(World, Unwrap(buffer[c]), c).ok

(* C9: every rejected request causes exactly one Error frame, with a code  *)
(* and a message, to be sent to the requesting client, and no more.        *)
C9_OneErrorFrame ==
  [][\A c \in ClientIds :
       Rejected(c) =>
         /\ Cardinality(Indices(Appended(c), "Error")) = 1
         /\ \A i \in Indices(Appended(c), "Error") :
              {"code", "message"} \subseteq DOMAIN Appended(c)[i].message]_vars

(* C10: after any rejected request the directory is as it was: the         *)
(* sessions, every room's member map and the username registry.            *)
C10_RejectionChangesNothing ==
  [][\A c \in ClientIds :
       Rejected(c) =>
         /\ clients' = clients
         /\ rooms' = rooms
         /\ username_to_client' = username_to_client]_vars

(* A session in a room had a LeaveRoom-less request rejected: a private    *)
(* message to itself                                                       *)
C10_Witness ==
  \E c \in Sessions :
    /\ pc[c] = "reading" /\ Decoded(c, "PrivateMessage")
    /\ State(c).tag = "InRoom"
    /\ Request(c).target_user = State(c).username
    /\ Len(queue[c]) >= 2
    /\ queue[c][Len(queue[c])].message.type = "Error"
    /\ queue[c][Len(queue[c])].message.code = "InternalError"

-----------------------------------------------------------------------------
(* The handlers under the scheduling of the runtime: a handler that can    *)
(* take the lock, and an aborted writer task, do get to run. What the      *)
(* peers send, and whether they close their transport, is left to them.    *)
FairSpec ==
  /\ Spec
  /\ \A c \in ClientIds :
       /\ WF_vars(Process(c))
       /\ WF_vars(SendTaskAborted(c))
       /\ WF_vars(Cleanup(c))

(* The handler of c has finished with a Disconnect frame (rejected by the  *)
(* precondition check, or dispatched) and is back at the top of its loop   *)
DisconnectHandled(c) == pc[c] = "reading" /\ Decoded(c, "Disconnect")

(* C11: once a client's Disconnect has been handled, whatever the state of *)
(* its session, the server by itself leaves the reader loop and removes    *)
(* the session (cleanup), without the client closing the transport.        *)
C11_DisconnectLeadsToCleanup ==
  \A c \in ClientIds : DisconnectHandled(c) ~> (c \notin Sessions)

-----------------------------------------------------------------------------
(* What remove_client leaves of client c, apart from the notices *)
NoTraceOf(c) ==
  /\ c \notin DOMAIN clients'
  /\ c \notin client_senders'
  /\ \A u \in DOMAIN username_to_client' : username_to_client'[u] # c
  /\ clients[c].username # None =>
       Unwrap(clients[c].username) \notin DOMAIN username_to_client'
  /\ \A r \in DOMAIN rooms' : c \notin DOMAIN rooms'[r].users

(* C12, as claimed: after remove_client(c) no trace of c remains, and if   *)
(* c was in a room each remaining member of that room was sent exactly one *)
(* UserLeft naming it.                                                     *)
C12_RemovedAndEveryMemberTold ==
  [][\A c \in ClientIds :
       Cleanup(c) =>
         /\ NoTraceOf(c)
         /\ \A r \in DOMAIN rooms :
              clients[c].current_room = Some(r) =>
                \A m \in Members(r) \ {c} :
                  /\ Cardinality(LeftNotices(Appended(m),
                                   Unwrap(clients[c].username), r)) = 1
                  /\ Cardinality(Indices(Appended(m), "UserLeft")) = 1]_vars

(* C12, amended: after remove_client(c) no trace of c remains, and if c    *)
(* was in a room each remaining member of that room whose channel is still *)
(* open was sent exactly one UserLeft naming it; a member whose receiver   *)
(* is dropped was sent nothing.                                            *)
C12_RemovedAndLiveMembersTold ==
  [][\A c \in ClientIds :
       Cleanup(c) =>
         /\ NoTraceOf(c)
         /\ \A r \in DOMAIN rooms :
              clients[c].current_room = Some(r) =>
                \A m \in Members(r) \ {c} :
                  IF m \in rx
                  THEN /\ Cardinality(LeftNotices(Appended(m),
                                        Unwrap(clients[c].username), r)) = 1
                       /\ Cardinality(Indices(Appended(m), "UserLeft")) = 1
                  ELSE queue'[m] = queue[m]]_vars

(* The handler of a client that was in a room has returned; the member it  *)
(* left behind holds the one UserLeft naming it.                           *)
C12_Witness ==
  \E c \in ClientIds : \E d \in Sessions :
    /\ pc[c] = "closed" /\ c \notin Sessions
    /\ c \notin client_senders
    /\ InitUsername(c) \notin DOMAIN username_to_client
    /\ d \in Members(InitRoom) /\ d \in rx
    /\ Cardinality(LeftNotices(queue[d], InitUsername(c), InitRoom)) = 1

-----------------------------------------------------------------------------
(* protocole.rs: the wire encoding. serialize() is serde_json::to_string   *)
(* on the derived Serialize of ProtocolFrame, deserialize() is             *)
(* serde_json::from_str on its derived Deserialize. A JSON text is         *)
(* modelled as its tree: null, a string (its characters as written between *)
(* the quotes, escapes included), a number, an array, or an object (the    *)
(* sequence of its entries in the order written). A Rust String is the     *)
(* sequence of its characters here.                                        *)

JNull == [k |-> "null"]
JStr(text) == [k |-> "str", v |-> text]
JNum(n) == [k |-> "num", v |-> n]
JArr(items) == [k |-> "arr", v |-> items]
JObj(entries) == [k |-> "obj", v |-> entries]
Entry(key, value) == [key |-> key, value |-> value]

Quote == "\""
Backslash == "\\"

(* A string is written with its quotes and backslashes escaped *)
RECURSIVE escape(_)
escape(s) ==
  IF s = <<>> THEN <<>>
  ELSE (IF Head(s) \in {Quote, Backslash}
        THEN <<Backslash, Head(s)>>
        ELSE <<Head(s)>>) \o escape(Tail(s))

(* and read back: a backslash announces the character that follows, a bare *)
(* quote cannot occur inside a string                                      *)
RECURSIVE unescape(_)
unescape(t) ==
  IF t = <<>> THEN [ok |-> TRUE, v |-> <<>>]
  ELSE IF Head(t) = Backslash
  THEN IF Len(t) >= 2 /\ t[2] \in {Quote, Backslash}
       THEN LET r == unescape(Tail(Tail(t)))
            IN IF r.ok THEN [ok |-> TRUE, v |-> <<t[2]>> \o r.v] ELSE r
       ELSE [ok |-> FALSE, err |-> <<"invalid escape">>]
  ELSE IF Head(t) = Quote
  THEN [ok |-> FALSE, err |-> <<"expected end of string">>]
  ELSE LET r == unescape(Tail(t))
       IN IF r.ok THEN [ok |-> TRUE, v |-> <<Head(t)>> \o r.v] ELSE r

(* DateTime<Utc> is written as an RFC 3339 string: the seconds, then the   *)
(* fraction with 0, 3, 6 or 9 digits, whichever is the shortest that       *)
(* loses nothing. The text is <<seconds, digits, fraction>>.               *)
Pow10(n) == CASE n = 0 -> 1 [] n = 3 -> 1000 [] n = 6 -> 1000000
              [] n = 9 -> 1000000000
(* Mutant: the fraction is always written with three digits *)
format_datetime_millis(t) == <<t.secs, 3, t.nanos \div 1000000>>

format_datetime(t) ==
  CASE t.nanos = 0 -> <<t.secs, 0, 0>>
    [] t.nanos # 0 /\ t.nanos % 1000000 = 0 ->
         <<t.secs, 3, t.nanos \div 1000000>>
    [] t.nanos % 1000000 # 0 /\ t.nanos % 1000 = 0 ->
         <<t.secs, 6, t.nanos \div 1000>>
    [] OTHER -> <<t.secs, 9, t.nanos>>
parse_datetime(text) ==
  IF Len(text) = 3 /\ text[2] \in {0, 3, 6, 9}
  THEN [ok |-> TRUE,
        v |-> [secs |-> text[1],
               nanos |-> text[3] * Pow10(9 - text[2])]]
  ELSE [ok |-> FALSE, err |-> <<"invalid datetime">>]

(* The variants of Message with their fields, in declaration order, and    *)
(* the variants of ErrorCode                                               *)
Fields(type) ==
  CASE type = "Connect" -> << <<"username", "String">> >>
    [] type = "JoinRoom" -> << <<"room_id", "String">> >>
    [] type = "SendMessage" -> << <<"content", "String">> >>
    [] type = "PrivateMessage" ->
         << <<"target_user", "String">>, <<"content", "String">> >>
    [] type = "ConnectAck" ->
         << <<"client_id", "String">>, <<"message", "String">> >>
    [] type = "ConnectError" -> << <<"reason", "String">> >>
    [] type = "JoinRoomAck" ->
         << <<"room_id", "String">>, <<"users", "VecString">> >>
    [] type = "JoinRoomError" -> << <<"reason", "String">> >>
    [] type = "UserJoined" ->
         << <<"username", "String">>, <<"room_id", "String">> >>
    [] type = "UserLeft" ->
         << <<"username", "String">>, <<"room_id", "String">> >>
    [] type = "RoomMessage" ->
         << <<"from", "String">>, <<"content", "String">>,
            <<"timestamp", "DateTime">>, <<"room_id", "String">> >>
    [] type = "PrivateMessageReceived" ->
         << <<"from", "String">>, <<"content", "String">>,
            <<"timestamp", "DateTime">> >>
    [] type = "RoomList" -> << <<"rooms", "MapUsize">> >>
    [] type = "UserList" ->
         << <<"users", "VecString">>, <<"room_id", "String">> >>
    [] type = "Error" ->
         << <<"code", "ErrorCode">>, <<"message", "String">> >>
    [] type \in {"LeaveRoom", "ListRooms", "ListUsers", "Disconnect",
                 "Ping", "Pong"} -> <<>>

MessageTypes ==
  {"Connect", "JoinRoom", "LeaveRoom", "SendMessage", "PrivateMessage",
   "ListRooms", "ListUsers", "Disconnect", "ConnectAck", "ConnectError",
   "JoinRoomAck", "JoinRoomError", "UserJoined", "UserLeft", "RoomMessage",
   "PrivateMessageReceived", "RoomList", "UserList", "Error", "Ping",
   "Pong"}

ErrorCodes ==
  {"UsernameAlreadyTaken", "RoomNotFound", "UserNotFound", "InvalidState",
   "InvalidFormat", "MessageTooLarge", "RateLimitExceeded", "InternalError"}

(* Serialize of one field. A HashMap is written in its iteration order,    *)
(* which the caller cannot choose: order is the sequence of its keys.      *)
to_json(kind, value, order) ==
  CASE kind = "String" -> JStr(escape(value))
    [] kind = "VecString" ->
         JArr([i \in DOMAIN value |-> JStr(escape(value[i]))])
    [] kind = "MapUsize" ->
         JObj([i \in DOMAIN order |->
                 Entry(escape(order[i]), JNum(value[order[i]]))])
    [] kind = "DateTime" -> JStr(format_datetime(value))
    [] kind = "ErrorCode" -> JStr(<<value>>)

Decoded_ok(v) == [ok |-> TRUE, v |-> v]
Decoded_err(e) == [ok |-> FALSE, err |-> e]

(* Deserialize of one field *)
from_json(kind, j) ==
  CASE kind = "String" ->
         IF j.k = "str" THEN unescape(j.v)
         ELSE Decoded_err(<<"invalid type, expected a string">>)
    [] kind = "VecString" ->
         IF j.k # "arr"
         THEN Decoded_err(<<"invalid type, expected a sequence">>)
         ELSE IF \A i \in DOMAIN j.v : j.v[i].k = "str" /\ unescape(j.v[i].v).ok
         THEN Decoded_ok([i \in DOMAIN j.v |-> unescape(j.v[i].v).v])
         ELSE Decoded_err(<<"invalid type, expected a string">>)
    [] kind = "MapUsize" ->
         IF j.k # "obj" THEN Decoded_err(<<"invalid type, expected a map">>)
         ELSE IF \A i \in DOMAIN j.v :
                   unescape(j.v[i].key).ok /\ j.v[i].value.k = "num"
                     /\ j.v[i].value.v >= 0
         THEN (* HashMap::insert of every entry in turn: the last wins *)
              LET keyOf(i) == unescape(j.v[i].key).v
                  keys == {keyOf(i) : i \in DOMAIN j.v}
                  last(key) ==
                    CHOOSE i \in DOMAIN j.v :
                      /\ keyOf(i) = key
                      /\ \A i2 \in DOMAIN j.v : keyOf(i2) = key => i2 <= i
              IN Decoded_ok([key \in keys |-> j.v[last(key)].value.v])
         ELSE Decoded_err(<<"invalid type, expected usize">>)
    [] kind = "DateTime" ->
         IF j.k = "str" THEN parse_datetime(j.v)
         ELSE Decoded_err(<<"invalid type, expected a datetime string">>)
    [] kind = "ErrorCode" ->
         IF j.k = "str" /\ Len(j.v) = 1 /\ j.v[1] \in ErrorCodes
         THEN Decoded_ok(j.v[1])
         ELSE Decoded_err(<<"unknown variant">>)

(* The entries of an object that carry a given key *)
Find(entries, key) == {i \in DOMAIN entries : entries[i].key = key}
The(S) == CHOOSE x \in S : TRUE

(* Message is adjacently tagged: #[serde(tag = "type", content = "data")]. *)
(* A unit variant is written with its tag alone.                           *)
serialize_message(m, order) ==
  LET fields == Fields(m.type)
      tag == Entry("type", JStr(<<m.type>>))
  IN IF fields = <<>> THEN JObj(<<tag>>)
     ELSE JObj(<<tag,
                 Entry("data",
                   JObj([i \in DOMAIN fields |->
                           Entry(fields[i][1],
                                 to_json(fields[i][2], m[fields[i][1]],
                                         order))]))>>)

deserialize_message(j) ==
  IF j.k # "obj" THEN Decoded_err(<<"invalid type, expected a map">>)
  ELSE IF Cardinality(Find(j.v, "type")) # 1
  THEN Decoded_err(<<"missing or duplicate field", "type">>)
  ELSE
    LET tag == j.v[The(Find(j.v, "type"))].value IN
    IF ~(tag.k = "str" /\ Len(tag.v) = 1 /\ tag.v[1] \in MessageTypes)
    THEN Decoded_err(<<"unknown variant">>)
    ELSE
      LET type == tag.v[1]
          fields == Fields(type)
      IN IF fields = <<>> THEN Decoded_ok([type |-> type])
         ELSE IF Cardinality(Find(j.v, "data")) # 1
         THEN Decoded_err(<<"missing or duplicate field", "data">>)
         ELSE
           LET data == j.v[The(Find(j.v, "data"))].value IN
           IF data.k # "obj"
           THEN Decoded_err(<<"invalid type, expected a struct variant">>)
           ELSE
             LET present(i) == Cardinality(Find(data.v, fields[i][1])) = 1
                 field(i) ==
                   from_json(fields[i][2],
                             data.v[The(Find(data.v, fields[i][1]))].value)
                 names == {fields[i][1] : i \in DOMAIN fields}
                 index(name) ==
                   CHOOSE i \in DOMAIN fields : fields[i][1] = name
             IN IF \A i \in DOMAIN fields : present(i) /\ field(i).ok
                THEN Decoded_ok(
                       [name \in names \cup {"type"} |->
                          IF name = "type" THEN type
                          ELSE field(index(name)).v])
                ELSE Decoded_err(<<"missing, duplicate or invalid field">>)

(* ProtocolFrame::serialize: the struct's fields in declaration order. It  *)
(* cannot fail on these types; the Result is always Ok.                    *)
serialize(frame, order) ==
  Decoded_ok(
    JObj(<<Entry("version", JNum(frame.version)),
           Entry("session_id",
                 IF frame.session_id = None THEN JNull
                 ELSE JStr(escape(Unwrap(frame.session_id)))),
           Entry("sequence", JNum(frame.sequence)),
           Entry("message", serialize_message(frame.message, order)),
           Entry("timestamp", JStr(format_datetime(frame.timestamp)))>>))

(* ProtocolFrame::deserialize. from_utf8_lossy leaves valid UTF-8 as it    *)
(* is, and what serialize() writes is valid UTF-8.                         *)
deserialize(data) ==
  IF data.k # "obj" THEN Decoded_err(<<"invalid type, expected a map">>)
  ELSE
    LET one(key) == Cardinality(Find(data.v, key)) = 1
        get(key) == data.v[The(Find(data.v, key))].value
    IN IF ~(one("version") /\ one("sequence") /\ one("message")
              /\ one("timestamp") /\ Cardinality(Find(data.v, "session_id")) <= 1)
       THEN Decoded_err(<<"missing or duplicate field">>)
       ELSE IF ~(get("version").k = "num" /\ get("version").v \in 0..255)
       THEN Decoded_err(<<"invalid value, expected u8">>)
       ELSE IF ~(get("sequence").k = "num" /\ get("sequence").v >= 0)
       THEN Decoded_err(<<"invalid value, expected u64">>)
       ELSE IF get("timestamp").k # "str"
       THEN Decoded_err(<<"invalid type, expected a datetime string">>)
       ELSE
         LET session_id ==
               IF ~one("session_id") \/ get("session_id").k = "null"
               THEN Decoded_ok(None)
               ELSE IF get("session_id").k = "str"
               THEN LET r == unescape(get("session_id").v)
                    IN IF r.ok THEN Decoded_ok(Some(r.v)) ELSE r
               ELSE Decoded_err(<<"invalid type, expected a string">>)
             message == deserialize_message(get("message"))
             timestamp == parse_datetime(get("timestamp").v)
         IN IF ~session_id.ok THEN session_id
            ELSE IF ~message.ok THEN message
            ELSE IF ~timestamp.ok THEN timestamp
            ELSE Decoded_ok([version |-> get("version").v,
                             session_id |-> session_id.v,
                             sequence |-> get("sequence").v,
                             message |-> message.v,
                             timestamp |-> timestamp.v])

-----------------------------------------------------------------------------
(* A caller of the pure functions of the protocol module, as the module's  *)
(* tests are: it builds a frame, encodes it, decodes the encoding.         *)

MaxItems == 2

Texts == {<<>>, <<"a">>, <<Quote>>, <<"a", Backslash>>}
DateTimes ==
  {[secs |-> 0, nanos |-> 0], [secs |-> 1, nanos |-> 500000000],
   [secs |-> 1, nanos |-> 7000], [secs |-> 2, nanos |-> 999999999]}
Counts == {0, 2}
SequenceNumbers == {0, 7}

Vecs == UNION {[1..n -> Texts] : n \in 0..MaxItems}
Maps ==
  UNION {[S -> Counts] : S \in {T \in SUBSET Texts : Cardinality(T) <= MaxItems}}

(* Every variant of Message, client-to-server and server-to-client *)
AllMessages ==
  {[type |-> t] : t \in {"LeaveRoom", "ListRooms", "ListUsers",
                         "Disconnect", "Ping", "Pong"}}
    \cup [type : {"Connect"}, username : Texts]
    \cup [type : {"JoinRoom"}, room_id : Texts]
    \cup [type : {"SendMessage"}, content : Texts]
    \cup [type : {"PrivateMessage"}, target_user : Texts, content : Texts]
    \cup [type : {"ConnectAck"}, client_id : Texts, message : Texts]
    \cup [type : {"ConnectError"}, reason : Texts]
    \cup [type : {"JoinRoomAck"}, room_id : Texts, users : Vecs]
    \cup [type : {"JoinRoomError"}, reason : Texts]
    \cup [type : {"UserJoined"}, username : Texts, room_id : Texts]
    \cup [type : {"UserLeft"}, username : Texts, room_id : Texts]
    \cup [type : {"RoomMessage"}, from : Texts, content : Texts,
          timestamp : DateTimes, room_id : Texts]
    \cup [type : {"PrivateMessageReceived"}, from : Texts, content : Texts,
          timestamp : DateTimes]
    \cup [type : {"RoomList"}, rooms : Maps]
    \cup [type : {"UserList"}, users : Vecs, room_id : Texts]
    \cup [type : {"Error"}, code : ErrorCodes, message : Texts]

(* ProtocolFrame::new with the time it read from the clock *)
ProtocolFrame_at(message, session_id, sequence, now) ==
  LET f == ProtocolFrame_new(message, session_id, sequence)
  IN [version |-> f.version, session_id |-> f.session_id,
      sequence |-> f.sequence, message |-> f.message, timestamp |-> now]

AllFrames ==
  {ProtocolFrame_at(m, s, n, t) :
     m \in AllMessages, s \in {None} \cup {Some(x) : x \in Texts},
     n \in SequenceNumbers, t \in DateTimes}

(* The iteration orders a HashMap can have: the orderings of its keys *)
Orders(map) ==
  {o \in [1..Cardinality(DOMAIN map) -> DOMAIN map] :
     \A i, j \in DOMAIN o : o[i] = o[j] => i = j}
MapOf(frame) ==
  IF frame.message.type = "RoomList" THEN frame.message.rooms ELSE EmptyMap

ServerIdle ==
  /\ clients = ServerState_new.clients
  /\ rooms = ServerState_new.rooms
  /\ username_to_client = ServerState_new.username_to_client
  /\ client_senders = ServerState_new.client_senders
  /\ queue = ServerState_new.queue
  /\ rx = ServerState_new.rx
  /\ pc = [c \in ClientIds |-> "idle"]
  /\ buffer = [c \in ClientIds |-> None]
  /\ nevents = 0
  /\ socket = [c \in ClientIds |-> <<>>]
  /\ lock = LockFree
  /\ result = NoResult
  /\ client_state = [c \in ClientIds |-> ClientLocalState_new]
  /\ client_tasks = [c \in ClientIds |-> ClientTasks_new]

ServerUnchanged ==
  UNCHANGED <<clients, rooms, username_to_client, client_senders, queue, rx,
              pc, buffer, nevents, socket, lock, result,
              client_state, client_tasks>>

(* Frames to validate: versions around PROTOCOL_VERSION and at the ends of *)
(* u8, encoded lengths around MAX_MESSAGE_SIZE                             *)
Versions == {0, PROTOCOL_VERSION, PROTOCOL_VERSION + 1, 255}
Sizes ==
  {2, MAX_MESSAGE_SIZE - 1, MAX_MESSAGE_SIZE, MAX_MESSAGE_SIZE + 1,
   2 * MAX_MESSAGE_SIZE}
SizedFrames == [version : Versions, size : Sizes, message : Messages]

CodecInit ==
  /\ ServerIdle
  /\ \/ \E frame \in AllFrames :
          codec = [stage |-> "built", frame |-> frame]
     \/ \E frame \in SizedFrames :
          codec = [stage |-> "sized", frame |-> frame]

Serialize ==
  /\ codec.stage = "built"
  /\ \E order \in Orders(MapOf(codec.frame)) :
       codec' = [stage |-> "encoded", frame |-> codec.frame,
                 serialized |-> serialize(codec.frame, order)]
  /\ ServerUnchanged

Deserialize ==
  /\ codec.stage = "encoded"
  /\ codec.serialized.ok
  /\ codec' = [stage |-> "decoded", frame |-> codec.frame,
               serialized |-> codec.serialized,
               deserialized |-> deserialize(codec.serialized.v)]
  /\ ServerUnchanged

Validate ==
  /\ codec.stage = "sized"
  /\ codec' = [stage |-> "validated", frame |-> codec.frame,
               result |-> validate(codec.frame)]
  /\ ServerUnchanged

CodecNext == Serialize \/ Deserialize \/ Validate

CodecSpec == CodecInit /\ [][CodecNext]_vars

(* C13: for every constructible Message of every variant wrapped in a      *)
(* ProtocolFrame, deserialize(serialize(frame)) succeeds and yields a      *)
(* frame equal to the original.                                            *)
C13_RoundTrip ==
  codec.stage = "decoded" =>
    /\ codec.deserialized.ok
    /\ codec.deserialized.v = codec.frame

(* A RoomList of two rooms whose names need escaping, written in one of    *)
(* its two orders, has been decoded                                        *)
C13_Witness ==
  /\ codec.stage = "decoded"
  /\ codec.frame.message.type = "RoomList"
  /\ DOMAIN codec.frame.message.rooms = {<<Quote>>, <<"a", Backslash>>}
  /\ LET data == codec.serialized.v.v[4].value.v[2].value
         map == data.v[1].value
     IN map.v[1].key = <<"a", Backslash, Backslash>>
  /\ codec.frame.session_id = Some(<<Quote>>)
  /\ codec.frame.timestamp.nanos = 7000
  /\ codec.deserialized.ok

(* C14: validate() succeeds if and only if the frame's version is          *)
(* PROTOCOL_VERSION (1) and its encoded length is at most MAX_MESSAGE_SIZE *)
(* (65536); a frame of encoded length exactly 65536 passes and one of      *)
(* 65537 fails.                                                            *)
C14_ValidateIffVersionAndSize ==
  codec.stage = "validated" =>
    /\ codec.result.ok <=>
         (codec.frame.version = 1 /\ codec.frame.size <= 65536)
    /\ codec.frame.version = 1 /\ codec.frame.size = 65536 => codec.result.ok
    /\ codec.frame.size = 65537 => ~codec.result.ok

(* A frame of version 1 and of exactly 65536 bytes has been validated *)
C14_Witness ==
  /\ codec.stage = "validated"
  /\ codec.frame.version = 1
  /\ codec.frame.size = 65536
  /\ codec.result.ok

-----------------------------------------------------------------------------
(* The two sets of the claim and the precondition they define *)
NeedsAuth ==
  {"JoinRoom", "LeaveRoom", "SendMessage", "PrivateMessage", "ListRooms",
   "ListUsers", "Disconnect"}
NeedsRoom == {"SendMessage", "ListUsers"}
PreconditionFails(session_state, type) ==
  \/ type \in NeedsAuth /\ ~IsAuth(session_state)
  \/ type \in NeedsRoom /\ session_state.tag # "InRoom"

(* The step sent c an Error frame with code InvalidState *)
InvalidStateSent(c) ==
  \E i \in Indices(Appended(c), "Error") :
    Appended(c)[i].message.code = "InvalidState"

(* C15, as claimed: a request is rejected with InvalidState, with no state *)
(* transition, exactly when its type needs authentication and the session  *)
(* is not Authenticated/InRoom, or needs a room and the session is not     *)
(* InRoom; Ping is accepted in every state.                                *)
C15_InvalidStateExactlyOnPrecondition ==
  [][\A c \in ClientIds :
       /\ \A f \in Frames :
            ReadFrame(c, f) /\ validate(f).ok =>
              /\ InvalidStateSent(c) <=>
                   PreconditionFails(State(c), f.message.type)
              /\ InvalidStateSent(c) => Directory' = Directory
       /\ Process(c) =>
            /\ InvalidStateSent(c) <=>
                 PreconditionFails(State(c), Request(c).type)
            /\ Request(c).type = "Ping" =>
                 /\ Indices(Appended(c), "Error") = {}
                 /\ Indices(Appended(c), "Pong") # {}]_vars

(* C15, amended: the precondition check of process_message rejects a       *)
(* request other than Connect with InvalidState, with no state transition, *)
(* exactly when its type needs authentication and the session is not       *)
(* Authenticated/InRoom, or needs a room and the session is not InRoom; a  *)
(* Connect from a Connected session and a Ping in any state pass it, and   *)
(* Ping is answered with Pong. (The dispatch may still answer InvalidState *)
(* for other reasons.)                                                     *)
C15_PrecheckRejectsOnPrecondition ==
  [][\A c \in ClientIds :
       /\ \A f \in Frames :
            ReadFrame(c, f) /\ validate(f).ok =>
              /\ f.message.type # "Connect" =>
                   /\ InvalidStateSent(c) <=>
                        PreconditionFails(State(c), f.message.type)
                   /\ pc'[c] = "checked" <=>
                        ~PreconditionFails(State(c), f.message.type)
              /\ InvalidStateSent(c) => Directory' = Directory /\ pc' = pc
              /\ f.message.type = "Connect" /\ State(c) = Connected =>
                   pc'[c] = "checked" /\ Appended(c) = <<>>
              /\ f.message.type = "Ping" =>
                   pc'[c] = "checked" /\ Appended(c) = <<>>
       /\ Process(c) /\ Request(c).type = "Ping" =>
            /\ Indices(Appended(c), "Error") = {}
            /\ Indices(Appended(c), "Pong") # {}]_vars

(* An Authenticated session asked for ListUsers and was refused by the     *)
(* precondition check                                                      *)
C15_Witness ==
  \E c \in Sessions :
    /\ pc[c] = "reading" /\ Decoded(c, "ListUsers")
    /\ State(c).tag = "Authenticated"
    /\ Len(queue[c]) >= 2
    /\ queue[c][Len(queue[c]) - 1].message.type = "Error"
    /\ queue[c][Len(queue[c]) - 1].message.code = "InvalidState"
    /\ queue[c][Len(queue[c]) - 1].message.message[1] =
         "Requires being in a room. Current state"

-----------------------------------------------------------------------------
(* C16: a Connect received while the session is Authenticated or InRoom is *)
(* answered with an InvalidState error and causes no transition: the       *)
(* session keeps its username and room, and the registry gains no entry    *)
(* for the requested name.                                                 *)
C16_ConnectWhenAuthenticatedRejected ==
  [][\A c \in ClientIds : \A f \in Frames :
       ( /\ ReadFrame(c, f) /\ validate(f).ok
         /\ f.message.type = "Connect"
         /\ IsAuth(State(c)) )
       =>
       ( /\ InvalidStateSent(c)
         /\ Indices(Appended(c), "ConnectAck") = {}
         /\ pc'[c] = "reading"
         /\ clients' = clients
         /\ rooms' = rooms
         /\ username_to_client' = username_to_client )]_vars

(* A session in a room asked to connect under another, free name and was   *)
(* refused: it is still in its room under its own name and the name it     *)
(* asked for is not registered                                             *)
C16_Witness ==
  \E c \in Sessions :
    /\ pc[c] = "reading" /\ Decoded(c, "Connect")
    /\ State(c).tag = "InRoom"
    /\ State(c).username # Request(c).username
    /\ clients[c].username = Some(State(c).username)
    /\ clients[c].current_room = Some(State(c).room_id)
    /\ Request(c).username \notin DOMAIN username_to_client
    /\ \E i \in Indices(queue[c], "Error") :
         /\ queue[c][i].message.code = "InvalidState"
         /\ queue[c][i].message.message[1] =
              "Already connected or authenticated. Current state"

-----------------------------------------------------------------------------
(* The step of c's handler that joins it to the existing room r *)
Joins(c, r) ==
  /\ Process(c)
  /\ Decoded(c, "JoinRoom")
  /\ Request(c).room_id = r
  /\ r \in DOMAIN rooms

UserJoined(username, room_id) ==
  [type |-> "UserJoined", username |-> username, room_id |-> room_id]
JoinedNotices(seq, u, r) ==
  {i \in DOMAIN seq : seq[i].message = UserJoined(u, r)}

(* c is sent one JoinRoomAck for r; its user list holds, as many times as  *)
(* there are such members, the name of every session that is a member of r *)
(* after the step, c's own included; c is sent no UserJoined               *)
Acknowledged(c, r) ==
  /\ Cardinality(Indices(Appended(c), "JoinRoomAck")) = 1
  /\ \A i \in Indices(Appended(c), "JoinRoomAck") :
       LET ack == Appended(c)[i].message
           named(u) == {m \in DOMAIN rooms'[r].users :
                          clients'[m].username = Some(u)}
       IN /\ ack.room_id = r
          /\ c \in DOMAIN rooms'[r].users
          /\ DOMAIN ack.users = {u \in Usernames : named(u) # {}}
          /\ \A u \in DOMAIN ack.users :
               ack.users[u] = Cardinality(named(u))
          /\ Unwrap(clients[c].username) \in DOMAIN ack.users
  /\ Indices(Appended(c), "UserJoined") = {}

(* C17, as claimed: a successful JoinRoom by c into r sends c a            *)
(* JoinRoomAck listing exactly the usernames of r's members after the join *)
(* and sends UserJoined{c's username, r} to every other member of r and    *)
(* not to c.                                                               *)
C17_EveryMemberToldOfJoin ==
  [][\A c \in ClientIds : \A r \in DOMAIN rooms :
       Joins(c, r) =>
         /\ Acknowledged(c, r)
         /\ \A m \in DOMAIN rooms'[r].users \ {c} :
              /\ Cardinality(JoinedNotices(Appended(m),
                               Unwrap(clients[c].username), r)) = 1
              /\ Cardinality(Indices(Appended(m), "UserJoined")) = 1]_vars

(* C17, amended: the same, the UserJoined going to every other member of r *)
(* whose channel is still open; a member whose receiver is dropped is sent *)
(* nothing.                                                                *)
C17_LiveMembersToldOfJoin ==
  [][\A c \in ClientIds : \A r \in DOMAIN rooms :
       Joins(c, r) =>
         /\ Acknowledged(c, r)
         /\ \A m \in DOMAIN rooms'[r].users \ {c} :
              IF m \in rx
              THEN /\ Cardinality(JoinedNotices(Appended(m),
                                    Unwrap(clients[c].username), r)) = 1
                   /\ Cardinality(Indices(Appended(m), "UserJoined")) = 1
              ELSE queue'[m] = queue[m]]_vars

(* A client joined the room another one is in: it holds a JoinRoomAck that *)
(* lists both names, the other member holds the UserJoined                 *)
C17_Witness ==
  \E c, d \in Sessions :
    /\ c # d
    /\ pc[c] = "reading" /\ Decoded(c, "JoinRoom")
    /\ State(c).tag = "InRoom" /\ State(c).room_id = Request(c).room_id
    /\ d \in Members(State(c).room_id) /\ d \in rx
    /\ JoinedNotices(queue[d], State(c).username, State(c).room_id) # {}
    /\ Indices(queue[c], "UserJoined") = {}
    /\ \E i \in Indices(queue[c], "JoinRoomAck") :
         DOMAIN queue[c][i].message.users = {"alice", "bob"}

-----------------------------------------------------------------------------
(* The step of c's handler that dispatches its LeaveRoom *)
LeaveRoomDispatched(c) == Process(c) /\ Decoded(c, "LeaveRoom")

(* What LeaveRoom does to the leaver c, in r under the name u *)
LeftRoom(c, u, r) ==
  /\ clients'[c].session_state = Authenticated(u)
  /\ clients'[c].current_room = None
  /\ clients'[c].username = Some(u)
  /\ c \notin DOMAIN rooms'[r].users
  /\ Indices(Appended(c), "UserLeft") = {}

(* LeaveRoom from Authenticated fails and changes nothing *)
LeaveOutsideRoomFails(c) ==
  LeaveRoomDispatched(c) /\ State(c).tag = "Authenticated" =>
    /\ Directory' = Directory
    /\ Indices(Appended(c), "Error") # {}
    /\ \A m \in ClientIds \ {c} : queue'[m] = queue[m]

(* C18, as claimed: LeaveRoom from InRoom(u, r) moves the session to       *)
(* Authenticated(u) with no current room, removes the client from r's      *)
(* members and enqueues UserLeft{u, r} to every remaining member of r and  *)
(* not to the leaver; LeaveRoom from Authenticated fails and leaves the    *)
(* state unchanged.                                                        *)
C18_LeaveTellsEveryMember ==
  [][\A c \in ClientIds :
       /\ LeaveRoomDispatched(c) /\ State(c).tag = "InRoom" =>
            LET u == State(c).username
                r == State(c).room_id
            IN /\ LeftRoom(c, u, r)
               /\ \A m \in Members(r) \ {c} :
                    /\ Cardinality(LeftNotices(Appended(m), u, r)) = 1
                    /\ Cardinality(Indices(Appended(m), "UserLeft")) = 1
       /\ LeaveOutsideRoomFails(c)]_vars

(* C18, amended: the same, the UserLeft being enqueued to every remaining  *)
(* member of r whose channel is still open; a member whose receiver is     *)
(* dropped gets nothing.                                                   *)
C18_LeaveTellsLiveMembers ==
  [][\A c \in ClientIds :
       /\ LeaveRoomDispatched(c) /\ State(c).tag = "InRoom" =>
            LET u == State(c).username
                r == State(c).room_id
            IN /\ LeftRoom(c, u, r)
               /\ \A m \in Members(r) \ {c} :
                    IF m \in rx
                    THEN /\ Cardinality(LeftNotices(Appended(m), u, r)) = 1
                         /\ Cardinality(Indices(Appended(m), "UserLeft")) = 1
                    ELSE queue'[m] = queue[m]
       /\ LeaveOutsideRoomFails(c)]_vars

(* A client has left the room another one is in: it is Authenticated, was  *)
(* sent nothing, and the member that stays holds the UserLeft              *)
C18_Witness ==
  \E c, d \in Sessions :
    /\ c # d
    /\ pc[c] = "reading" /\ Decoded(c, "LeaveRoom")
    /\ State(c) = Authenticated(InitUsername(c))
    /\ clients[c].current_room = None
    /\ queue[c] = <<>>
    /\ \A r \in DOMAIN rooms : c \notin Members(r)
    /\ d \in Members(InitRoom) /\ d \in rx
    /\ Cardinality(LeftNotices(queue[d], InitUsername(c), InitRoom)) = 1

-----------------------------------------------------------------------------
(* The step of c's handler that dispatches its PrivateMessage *)
PrivateMessageDispatched(c) == Process(c) /\ Decoded(c, "PrivateMessage")

PrivateMessageReceived(from, content) ==
  [type |-> "PrivateMessageReceived", from |-> from, content |-> content]

(* C19: a PrivateMessage from authenticated user a to a different          *)
(* registered user b whose queue is live enqueues exactly one              *)
(* PrivateMessageReceived{from: a, content} on b's queue and nothing on    *)
(* any other queue, a's own included.                                      *)
C19_PrivateMessageDelivered ==
  [][\A c \in ClientIds :
       ( /\ PrivateMessageDispatched(c)
         /\ Request(c).target_user # State(c).username
         /\ Request(c).target_user \in DOMAIN username_to_client
         /\ username_to_client[Request(c).target_user] \in rx )
       =>
       LET b == username_to_client[Request(c).target_user] IN
       /\ Len(Appended(b)) = 1
       /\ Appended(b)[1].message =
            PrivateMessageReceived(State(c).username, Request(c).content)
       /\ \A d \in DOMAIN queue \ {b} : queue'[d] = queue[d]
       /\ queue'[c] = queue[c]
       /\ Directory' = Directory]_vars

(* alice wrote to bob: bob holds the message, alice was sent nothing *)
C19_Witness ==
  \E c, b \in Sessions :
    /\ c # b
    /\ pc[c] = "reading" /\ Decoded(c, "PrivateMessage")
    /\ IsAuth(State(c)) /\ Holds(b, Request(c).target_user)
    /\ queue[c] = <<>>
    /\ Len(queue[b]) = 1
    /\ queue[b][1].message =
         PrivateMessageReceived(State(c).username, Request(c).content)

-----------------------------------------------------------------------------
(* C20: a PrivateMessage whose target is not in the username registry, or  *)
(* is the sender's own username, delivers no PrivateMessageReceived to     *)
(* anyone; the sender receives an error, UserNotFound for an unknown       *)
(* recipient; a message to oneself is refused before send_private_message  *)
(* is called (the sender, though registered, is delivered nothing).        *)
C20_PrivateMessageRefused ==
  [][\A c \in ClientIds :
       ( /\ PrivateMessageDispatched(c)
         /\ \/ Request(c).target_user \notin DOMAIN username_to_client
            \/ Request(c).target_user = State(c).username )
       =>
       /\ \A d \in DOMAIN queue :
            Indices(Appended(d), "PrivateMessageReceived") = {}
       /\ \A d \in DOMAIN queue \ {c} : queue'[d] = queue[d]
       /\ Len(Appended(c)) >= 1
       /\ Appended(c)[1].message.type = "Error"
       /\ Request(c).target_user \notin DOMAIN username_to_client =>
            Appended(c)[1].message.code = "UserNotFound"
       /\ Request(c).target_user = State(c).username =>
            Appended(c)[1].message =
              Error("InvalidState",
                    <<"You cannot send a private message to yourself.">>)
       /\ Directory' = Directory]_vars

(* A session wrote to a name nobody holds and was answered UserNotFound;   *)
(* nobody holds a private message                                          *)
C20_Witness ==
  \E c \in Sessions :
    /\ pc[c] = "reading" /\ Decoded(c, "PrivateMessage")
    /\ IsAuth(State(c))
    /\ Request(c).target_user \notin DOMAIN username_to_client
    /\ Len(queue[c]) >= 1
    /\ queue[c][1].message.type = "Error"
    /\ queue[c][1].message.code = "UserNotFound"
    /\ \A d \in DOMAIN queue :
         Indices(queue[d], "PrivateMessageReceived") = {}

-----------------------------------------------------------------------------
(* The connection handlers together with their writer tasks and with the   *)
(* protocol-level errors of the reader loop.                               *)

(* Mutant: the task takes the newest frame of the channel *)
recv_newest(channel, received) == channel[Len(channel)]

(* send_task: rx.recv() hands over the frames of the channel in the order  *)
(* they were sent; the task has received as many as it has written         *)
recv(channel, received) == channel[received + 1]

(* send_task: one turn of the loop, the frame is written to the stream *)
WriteFrame(c) ==
  /\ c \in rx
  /\ Len(socket[c]) < Len(queue[c])
  /\ socket' = [socket EXCEPT
                  ![c] = Append(@, recv(queue[c], Len(socket[c])))]
  /\ UNCHANGED <<clients, rooms, username_to_client, client_senders, queue,
                 rx, pc, buffer, nevents, codec, lock, result>>
  /\ UNCHANGED <<client_state, client_tasks>>

(* send_task: write_all fails, the loop is left and the task ends; the     *)
(* receiver of the channel goes with it. Nothing else is told.             *)
WriteFailed(c) ==
  /\ c \in rx
  /\ pc[c] \in {"reading", "checked"}
  /\ Len(socket[c]) < Len(queue[c])
  /\ rx' = rx \ {c}
  /\ UNCHANGED <<clients, rooms, username_to_client, client_senders, queue,
                 pc, buffer, nevents, codec, socket, lock, result>>
  /\ UNCHANGED <<client_state, client_tasks>>

(* Length prefixes a peer can send: the limit and the first one above it *)
Lengths == {MAX_MESSAGE_SIZE, MAX_MESSAGE_SIZE + 1}

(* The reader loops with every way they have to end *)
ReaderNext ==
  \/ Next
  \/ \E c \in ClientIds :
       \/ \E length \in Lengths : ReadOversize(c, length)
       \/ ReadUndecodable(c)

ReaderSpec == Init /\ [][ReaderNext]_vars

WireNext ==
  \/ ReaderNext
  \/ \E c \in ClientIds :
       \/ WriteFrame(c)
       \/ WriteFailed(c)

WireSpec == Init /\ [][WireNext]_vars

(* seq1 is seq2 or a beginning of it *)
IsPrefix(seq1, seq2) ==
  /\ Len(seq1) <= Len(seq2)
  /\ \A i \in DOMAIN seq1 : seq1[i] = seq2[i]

(* C21: the frames enqueued on a client's channel are written to its       *)
(* socket in enqueue order: what has been written is always a beginning of *)
(* what was enqueued (nothing reordered, duplicated or skipped), and a     *)
(* write adds the one frame that comes next.                               *)
C21_WrittenInEnqueueOrder ==
  /\ [](\A c \in ClientIds : IsPrefix(socket[c], queue[c]))
  /\ [][\A c \in ClientIds :
          socket'[c] # socket[c] =>
            socket'[c] = Append(socket[c], queue[c][Len(socket[c]) + 1])]_vars

(* A client was sent three frames and two of them are on its socket *)
C21_Witness ==
  \E c \in ClientIds :
    /\ Len(queue[c]) >= 3
    /\ Len(socket[c]) = 2
    /\ socket[c][1] # socket[c][2]
    /\ socket[c][1] = queue[c][1] /\ socket[c][2] = queue[c][2]

-----------------------------------------------------------------------------
(* The reader loops under the scheduler's guarantees: a handler that has   *)
(* left its loop is suspended on nothing but the write lock, which is fair *)
(* and which every holder releases, so its cleanup does happen.            *)
FairReaderSpec == ReaderSpec /\ \A c \in ClientIds : WF_vars(Cleanup(c))

(* The reader loop of c is left *)
LoopExited(c) == pc[c] \in {"cleanup", "closed"}

(* c was sent the error frame of a protocol-level error *)
(* (InvalidFormat is also the code of the answer to a decoded frame of an  *)
(* unexpected type; the text tells the two apart)                          *)
ProtocolError(c) ==
  \E i \in DOMAIN queue[c] :
    /\ queue[c][i].message.type = "Error"
    /\ \/ queue[c][i].message.code = "MessageTooLarge"
       \/ /\ queue[c][i].message.code = "InvalidFormat"
          /\ queue[c][i].message.message[1] = "Invalid message format"

(* C22: a length prefix above MAX_MESSAGE_SIZE or a payload that does not  *)
(* decode ends the connection: the reader loop is left, no further frame   *)
(* is read, and remove_client then runs. Only a prefix above the limit is  *)
(* refused: every MessageTooLarge frame quotes a length above 65536, and a *)
(* frame with a prefix of exactly 65536 is read and handed on.             *)
C22_ProtocolErrorTerminates ==
  /\ [](\A c \in ClientIds : ProtocolError(c) => LoopExited(c))
  /\ [][\A c \in ClientIds :
          /\ LoopExited(c) =>
               LoopExited(c)' /\ buffer'[c] = buffer[c]
          /\ (\E length \in Lengths : ReadOversize(c, length))
               => LoopExited(c)' /\ (c \in rx => ProtocolError(c)')
          /\ ReadUndecodable(c)
               => LoopExited(c)' /\ (c \in rx => ProtocolError(c)')
          /\ \A i \in DOMAIN queue'[c] :
               (/\ queue'[c][i].message.type = "Error"
                /\ queue'[c][i].message.code = "MessageTooLarge")
                 => queue'[c][i].message.message[2] > MAX_MESSAGE_SIZE
          /\ \A f \in Frames :
               ReadFrame(c, f) /\ f.size = MAX_MESSAGE_SIZE =>
                 /\ buffer'[c] = Some(f)
                 /\ ~LoopExited(c)'
                 /\ validate(f).ok /\ precheck(World, f, c).ok
                      => pc'[c] = "checked"]_vars
  /\ \A c \in ClientIds :
       (c \in Sessions /\ ProtocolError(c)) ~> (c \notin Sessions)

(* A connection was ended by an oversized prefix and another one by a      *)
(* payload that does not decode, and both were removed                     *)
C22_Witness ==
  \E c, d \in ClientIds :
    /\ pc[c] = "closed" /\ c \notin Sessions
    /\ \E i \in DOMAIN queue[c] :
         /\ queue[c][i].message.type = "Error"
         /\ queue[c][i].message.code = "MessageTooLarge"
    /\ pc[d] = "closed" /\ d \notin Sessions
    /\ \E i \in DOMAIN queue[d] :
         /\ queue[d][i].message.type = "Error"
         /\ queue[d][i].message.code = "InvalidFormat"
         /\ queue[d][i].message.message = <<"Invalid message format">>

-----------------------------------------------------------------------------
(* C23: a rejected request (state, precondition or lookup failure) of      *)
(* client A does not end A's connection: A stays registered with its       *)
(* session as it was and its handler is back at the top of the reader      *)
(* loop, where the next request is read and handled from an unchanged      *)
(* directory. No other connection is affected: nothing is sent on another  *)
(* client's channel, no other session changes, no other handler moves.     *)
C23_RejectionIsLocal ==
  [][\A c \in ClientIds :
       Rejected(c) =>
         /\ pc'[c] = "reading"
         /\ c \in Sessions'
         /\ Directory' = Directory
         /\ c \in client_senders' /\ (c \in rx <=> c \in rx')
         /\ \A d \in ClientIds \ {c} :
              /\ queue'[d] = queue[d]
              /\ pc'[d] = pc[d]
              /\ buffer'[d] = buffer[d]
              /\ (d \in rx <=> d \in rx')
              /\ (d \in client_senders <=> d \in client_senders')]_vars

(* A client whose request was rejected had its next request served: its    *)
(* channel carries the Error frames and after them a JoinRoomAck, with     *)
(* another client registered meanwhile                                     *)
C23_Witness ==
  \E c \in Sessions : \E d \in Sessions \ {c} :
    /\ pc[c] = "reading"
    /\ State(c).tag = "InRoom"
    /\ \E i, j \in DOMAIN queue[c] :
         /\ i < j
         /\ queue[c][i].message.type = "Error"
         /\ queue[c][j].message.type = "JoinRoomAck"

-----------------------------------------------------------------------------
(* broadcast_to_room on its own: the directories the handlers can reach,   *)
(* and the function applied to them with every kind of argument.           *)

(* A frame no handler builds, to tell these calls from the handlers' own *)
BroadcastFrames ==
  {ProtocolFrame_new([type |-> "RoomMessage", from |-> "serveur",
                      content |-> text, room_id |-> "general"], None, 0) :
     text \in Contents}
Excludes == {None} \cup {Some(c) : c \in ClientIds}

Broadcast(room_id, message_frame, exclude_client) ==
  /\ nevents < MaxEvents
  /\ nevents' = nevents + 1
  /\ Commit(broadcast_to_room(World, room_id, message_frame, exclude_client))
  /\ UNCHANGED <<pc, buffer, codec, socket, lock, result>>
  /\ UNCHANGED <<client_state, client_tasks>>

BroadcastNext ==
  \/ Next
  \/ \E room_id \in RoomInputs, message_frame \in BroadcastFrames,
        exclude_client \in Excludes :
       Broadcast(room_id, message_frame, exclude_client)

BroadcastSpec == Init /\ [][BroadcastNext]_vars

(* What a call leaves alone, whatever the room *)
BroadcastKeeps ==
  /\ Directory' = Directory
  /\ client_senders' = client_senders
  /\ rx' = rx

(* C24, as claimed: broadcast_to_room(r, frame, exclude) sends exactly one *)
(* copy of the frame to every member of r but the excluded client, nothing *)
(* to anyone else, and changes nothing when r is not a known room.         *)
C24_EveryMemberGetsOneCopy ==
  [][\A r \in RoomInputs, f \in BroadcastFrames, e \in Excludes :
       Broadcast(r, f, e) =>
         /\ BroadcastKeeps
         /\ IF r \in DOMAIN rooms
            THEN \A c \in ClientIds :
                   IF c \in Members(r) /\ e # Some(c)
                   THEN Appended(c) = <<f>>
                   ELSE queue'[c] = queue[c]
            ELSE queue' = queue]_vars

(* C24, amended: one copy goes to every member of r, but the excluded      *)
(* client, whose channel is still open; a member whose receiver is dropped *)
(* gets nothing, like the excluded client and every non-member, and the    *)
(* call changes nothing when r is not a known room.                        *)
C24_EveryLiveMemberGetsOneCopy ==
  [][\A r \in RoomInputs, f \in BroadcastFrames, e \in Excludes :
       Broadcast(r, f, e) =>
         /\ BroadcastKeeps
         /\ IF r \in DOMAIN rooms
            THEN \A c \in ClientIds :
                   IF c \in Members(r) /\ e # Some(c) /\ c \in rx
                   THEN Appended(c) = <<f>>
                   ELSE queue'[c] = queue[c]
            ELSE queue' = queue]_vars

(* One call on a room of two members, one of them excluded: the other      *)
(* holds the frame, the excluded one nothing                               *)
C24_Witness ==
  \E c, d \in Sessions : \E f \in BroadcastFrames :
    /\ c # d
    /\ {c, d} \subseteq Members("general")
    /\ {c, d} \subseteq rx
    /\ nevents = 1
    /\ queue[c] = <<f>>
    /\ queue[d] = <<>>

-----------------------------------------------------------------------------
(* The handlers step by step around the directory lock                     *)
(* (Arc<RwLock<ServerState>>). A handler waiting for the lock is a handler *)
(* whose acquiring step is not enabled. pc[c] is here one of               *)
(*   "idle"          no connection accepted for c yet                      *)
(*   "add_client"    write lock held, before add_client                    *)
(*   "reading"       suspended in read_exact on the socket                 *)
(*   "check_wait"    process_message, at state.read().await                *)
(*   "check"         read lock held, before the precondition checks        *)
(*   "dispatch_wait" read lock dropped, at the handler's read()/write()    *)
(*   "dispatch"      the handler's lock held, before its body              *)
(*   "join_mid"      write lock held, inside join_room: the old room is    *)
(*                   left, the new one not yet entered                     *)
(*   "report_wait"   at state.read().await with an error frame to send     *)
(*   "report"        read lock held, before send_message_to_client         *)
(*   "cleanup"       loop left, at state.write().await                     *)
(*   "remove_client" write lock held, before remove_client                 *)
(*   "closed"        handle_client returned                                *)

(* c holds a guard on the lock *)
Holder(c) == lock.writer = Some(c) \/ c \in lock.readers

(* Mutant: a read guard is granted while a writer holds the lock *)
read_during_write(c) == lock' = [lock EXCEPT !.readers = @ \cup {c}]

(* RwLock::read: granted when no writer holds the lock *)
read(c) ==
  /\ lock.writer = None
  /\ lock' = [lock EXCEPT !.readers = @ \cup {c}]

(* RwLock::write: granted when nobody holds the lock *)
write(c) ==
  /\ lock.writer = None
  /\ lock.readers = {}
  /\ lock' = [lock EXCEPT !.writer = Some(c)]

(* The guard of c goes out of scope *)
drop(c) ==
  lock' = [writer |-> IF lock.writer = Some(c) THEN None ELSE lock.writer,
           readers |-> lock.readers \ {c}]

(* The three requests whose handlers take the write lock *)
WantsWrite(message) == message.type \in {"Connect", "JoinRoom", "LeaveRoom"}

(* handle_client: the frame sent for an Err(e) of process_message *)
ProcessingError(e) ==
  [message |-> Error("InternalError", <<"Processing error">> \o e),
   break |-> FALSE]

(* join_room up to the point where the old room is left: current_room is   *)
(* taken, the client removed from the old room and its members told        *)
join_room_left(W, client_id, room_id) ==
  LET username == Unwrap(W.clients[client_id].username)
      old == W.clients[client_id].current_room
      W1 == [W EXCEPT !.clients[client_id].current_room = None]
  IN IF old # None /\ Unwrap(old) \in DOMAIN W1.rooms
     THEN broadcast_to_room(
            [W1 EXCEPT !.rooms[Unwrap(old)] = remove_user(@, client_id)],
            Unwrap(old),
            ProtocolFrame_new(UserLeft(username, Unwrap(old)), None, 0),
            Some(client_id))
     ELSE W1

(* handle_client: state.write().await before add_client *)
AcceptLock(c) ==
  /\ pc[c] = "idle"
  /\ nevents < MaxEvents
  /\ nevents' = nevents + 1
  /\ write(c)
  /\ pc' = [pc EXCEPT ![c] = "add_client"]
  /\ UNCHANGED <<clients, rooms, username_to_client, client_senders, queue,
                 rx, buffer, codec, socket, result>>
  /\ UNCHANGED <<client_state, client_tasks>>

AddClient(c) ==
  /\ pc[c] = "add_client"
  /\ Commit(add_client(World, c))
  /\ drop(c)
  /\ pc' = [pc EXCEPT ![c] = "reading"]
  /\ UNCHANGED <<buffer, nevents, codec, socket, result>>
  /\ UNCHANGED <<client_state, client_tasks>>

(* Both read_exact calls return and the payload decodes; process_message   *)
(* validates the frame before it asks for the lock                         *)
Received(c, frame) ==
  /\ pc[c] = "reading"
  /\ nevents < MaxEvents
  /\ ~(frame.size > MAX_MESSAGE_SIZE)
  /\ nevents' = nevents + 1
  /\ buffer' = [buffer EXCEPT ![c] = Some(frame)]
  /\ LET v == validate(frame) IN
     IF v.ok
     THEN /\ pc' = [pc EXCEPT ![c] = "check_wait"]
          /\ UNCHANGED result
     ELSE /\ pc' = [pc EXCEPT ![c] = "report_wait"]
          /\ result' = [result EXCEPT ![c] = Some(ProcessingError(v.err))]
  /\ UNCHANGED <<clients, rooms, username_to_client, client_senders, queue,
                 rx, codec, socket, lock>>
  /\ UNCHANGED <<client_state, client_tasks>>

(* The length prefix is above the limit *)
Oversize(c, length) ==
  /\ pc[c] = "reading"
  /\ nevents < MaxEvents
  /\ nevents' = nevents + 1
  /\ length > MAX_MESSAGE_SIZE
  /\ result' = [result EXCEPT ![c] =
       Some([message |-> Error("MessageTooLarge",
                               <<"Message too large", length>>),
             break |-> TRUE])]
  /\ pc' = [pc EXCEPT ![c] = "report_wait"]
  /\ UNCHANGED <<clients, rooms, username_to_client, client_senders, queue,
                 rx, buffer, codec, socket, lock>>
  /\ UNCHANGED <<client_state, client_tasks>>

(* The payload does not decode *)
Undecodable(c) ==
  /\ pc[c] = "reading"
  /\ nevents < MaxEvents
  /\ nevents' = nevents + 1
  /\ result' = [result EXCEPT ![c] =
       Some([message |-> Error("InvalidFormat", <<"Invalid message format">>),
             break |-> TRUE])]
  /\ pc' = [pc EXCEPT ![c] = "report_wait"]
  /\ UNCHANGED <<clients, rooms, username_to_client, client_senders, queue,
                 rx, buffer, codec, socket, lock>>
  /\ UNCHANGED <<client_state, client_tasks>>

(* process_message: state.read().await *)
CheckLock(c) ==
  /\ pc[c] = "check_wait"
  /\ read(c)
  /\ pc' = [pc EXCEPT ![c] = "check"]
  /\ UNCHANGED <<clients, rooms, username_to_client, client_senders, queue,
                 rx, buffer, nevents, codec, socket, result>>
  /\ UNCHANGED <<client_state, client_tasks>>

(* process_message: the precondition checks under the read guard, which is *)
(* dropped explicitly or by the early return                               *)
Check(c) ==
  /\ pc[c] = "check"
  /\ LET r == precheck(World, Unwrap(buffer[c]), c) IN
     /\ Commit(r.W)
     /\ IF r.ok
        THEN /\ pc' = [pc EXCEPT ![c] = "dispatch_wait"]
             /\ UNCHANGED result
        ELSE /\ pc' = [pc EXCEPT ![c] = "report_wait"]
             /\ result' = [result EXCEPT ![c] = Some(ProcessingError(r.err))]
  /\ drop(c)
  /\ UNCHANGED <<buffer, nevents, codec, socket>>
  /\ UNCHANGED <<client_state, client_tasks>>

(* The handler asks for its lock; Disconnect has no handler and returns Ok *)
DispatchLock(c) ==
  /\ pc[c] = "dispatch_wait"
  /\ IF Request(c).type = "Disconnect"
     THEN /\ pc' = [pc EXCEPT ![c] = "reading"]
          /\ UNCHANGED lock
     ELSE /\ IF WantsWrite(Request(c)) THEN write(c) ELSE read(c)
          /\ pc' = [pc EXCEPT ![c] = "dispatch"]
  /\ UNCHANGED <<clients, rooms, username_to_client, client_senders, queue,
                 rx, buffer, nevents, codec, socket, result>>
  /\ UNCHANGED <<client_state, client_tasks>>

(* Mutant: join_room gives the lock up once the old room is left *)
Dispatch_unlocked_between(c) ==
  /\ pc[c] = "dispatch"
  /\ LET m == Request(c) IN
     IF m.type = "JoinRoom" /\ join_room(World, c, m.room_id).ok
     THEN /\ Commit(join_room_left(World, c, m.room_id))
          /\ pc' = [pc EXCEPT ![c] = "join_mid"]
          /\ drop(c)
          /\ UNCHANGED result
     ELSE LET r == dispatch(World, Unwrap(buffer[c]), c) IN
          /\ Commit(r.W)
          /\ drop(c)
          /\ IF r.ok
             THEN /\ pc' = [pc EXCEPT ![c] = "reading"]
                  /\ UNCHANGED result
             ELSE /\ pc' = [pc EXCEPT ![c] = "report_wait"]
                  /\ result' = [result EXCEPT
                                  ![c] = Some(ProcessingError(r.err))]
  /\ UNCHANGED <<buffer, nevents, codec, socket>>
  /\ UNCHANGED <<client_state, client_tasks>>

(* Mutant: an Err is returned with the guard still held *)
Dispatch_return_holding(c) ==
  /\ pc[c] = "dispatch"
  /\ LET m == Request(c) IN
     IF m.type = "JoinRoom" /\ join_room(World, c, m.room_id).ok
     THEN /\ Commit(join_room_left(World, c, m.room_id))
          /\ pc' = [pc EXCEPT ![c] = "join_mid"]
          /\ UNCHANGED <<lock, result>>
     ELSE LET r == dispatch(World, Unwrap(buffer[c]), c) IN
          /\ Commit(r.W)
          /\ IF r.ok THEN drop(c) ELSE UNCHANGED lock
          /\ IF r.ok
             THEN /\ pc' = [pc EXCEPT ![c] = "reading"]
                  /\ UNCHANGED result
             ELSE /\ pc' = [pc EXCEPT ![c] = "report_wait"]
                  /\ result' = [result EXCEPT
                                  ![c] = Some(ProcessingError(r.err))]
  /\ UNCHANGED <<buffer, nevents, codec, socket>>
  /\ UNCHANGED <<client_state, client_tasks>>

(* The body of the handler under its guard. A join_room that succeeds is   *)
(* taken in two steps, the first one up to the leaving of the old room.    *)
Dispatch(c) ==
  /\ pc[c] = "dispatch"
  /\ LET m == Request(c) IN
     IF m.type = "JoinRoom" /\ join_room(World, c, m.room_id).ok
     THEN /\ Commit(join_room_left(World, c, m.room_id))
          /\ pc' = [pc EXCEPT ![c] = "join_mid"]
          /\ UNCHANGED <<lock, result>>
     ELSE LET r == dispatch(World, Unwrap(buffer[c]), c) IN
          /\ Commit(r.W)
          /\ drop(c)
          /\ IF r.ok
             THEN /\ pc' = [pc EXCEPT ![c] = "reading"]
                  /\ UNCHANGED result
             ELSE /\ pc' = [pc EXCEPT ![c] = "report_wait"]
                  /\ result' = [result EXCEPT
                                  ![c] = Some(ProcessingError(r.err))]
  /\ UNCHANGED <<buffer, nevents, codec, socket>>
  /\ UNCHANGED <<client_state, client_tasks>>

(* The rest of join_room and of handle_join_room: with current_room taken  *)
(* there is no old room left to leave                                      *)
JoinEnter(c) ==
  /\ pc[c] = "join_mid"
  /\ Commit(handle_join_room(World, c, Request(c).room_id).W)
  /\ drop(c)
  /\ pc' = [pc EXCEPT ![c] = "reading"]
  /\ UNCHANGED <<buffer, nevents, codec, socket, result>>
  /\ UNCHANGED <<client_state, client_tasks>>

(* handle_client: state.read().await before an error frame is sent *)
ReportLock(c) ==
  /\ pc[c] = "report_wait"
  /\ read(c)
  /\ pc' = [pc EXCEPT ![c] = "report"]
  /\ UNCHANGED <<clients, rooms, username_to_client, client_senders, queue,
                 rx, buffer, nevents, codec, socket, result>>
  /\ UNCHANGED <<client_state, client_tasks>>

(* Mutant: the read guard outlives the loop iteration *)
Report_keep_guard(c) ==
  /\ pc[c] = "report"
  /\ Commit(send_message_to_client(World, c, Unwrap(result[c]).message))
  /\ UNCHANGED lock
  /\ result' = [result EXCEPT ![c] = None]
  /\ pc' = [pc EXCEPT ![c] =
              IF Unwrap(result[c]).break THEN "cleanup" ELSE "reading"]
  /\ UNCHANGED <<buffer, nevents, codec, socket>>
  /\ UNCHANGED <<client_state, client_tasks>>

(* The error frame is sent; the guard goes at the end of the block or at   *)
(* the break                                                               *)
Report(c) ==
  /\ pc[c] = "report"
  /\ Commit(send_message_to_client(World, c, Unwrap(result[c]).message))
  /\ drop(c)
  /\ result' = [result EXCEPT ![c] = None]
  /\ pc' = [pc EXCEPT ![c] =
              IF Unwrap(result[c]).break THEN "cleanup" ELSE "reading"]
  /\ UNCHANGED <<buffer, nevents, codec, socket>>
  /\ UNCHANGED <<client_state, client_tasks>>

(* handle_client: state.write().await before remove_client *)
CleanupLock(c) ==
  /\ pc[c] = "cleanup"
  /\ write(c)
  /\ pc' = [pc EXCEPT ![c] = "remove_client"]
  /\ UNCHANGED <<clients, rooms, username_to_client, client_senders, queue,
                 rx, buffer, nevents, codec, socket, result>>
  /\ UNCHANGED <<client_state, client_tasks>>

RemoveClient(c) ==
  /\ pc[c] = "remove_client"
  /\ LET W == remove_client(World, c) IN
     Commit([W EXCEPT !.rx = @ \ {c}])
  /\ drop(c)
  /\ pc' = [pc EXCEPT ![c] = "closed"]
  /\ UNCHANGED <<buffer, nevents, codec, socket, result>>
  /\ UNCHANGED <<client_state, client_tasks>>

(* The handlers, step by step *)
HandlerNext ==
  \E c \in ClientIds :
    \/ AcceptLock(c)
    \/ AddClient(c)
    \/ \E frame \in Frames : Received(c, frame)
    \/ \E length \in Lengths : Oversize(c, length)
    \/ Undecodable(c)
    \/ ReadFailed(c)
    \/ CheckLock(c)
    \/ Check(c)
    \/ DispatchLock(c)
    \/ Dispatch(c)
    \/ JoinEnter(c)
    \/ ReportLock(c)
    \/ Report(c)
    \/ SendTaskAborted(c)
    \/ CleanupLock(c)
    \/ RemoveClient(c)

(* The handlers and the writer tasks *)
LockNext == HandlerNext \/ \E c \in ClientIds : WriteFrame(c)

LockSpec == Init /\ [][LockNext]_vars

(* The session, room and registry invariants *)
Consistent ==
  /\ C1_OneSessionPerUsername
  /\ C3_SessionFieldsAgree
  /\ C4_MembershipAgrees
  /\ C5_RegistryAgrees

(* C25: writes to the directory are atomic for every other handler. The    *)
(* directory changes only in steps of the handler that holds the write     *)
(* lock, while nobody else holds a guard; whenever no writer holds the     *)
(* lock (it is free, or readers hold it) the session, room and registry    *)
(* invariants hold, so that the state inside a room change (the mover in   *)
(* neither room with a session that says InRoom) is never observed; and    *)
(* the two steps of a room change amount to join_room.                     *)
C25_WritesAreAtomic ==
  /\ [](lock.writer = None => Consistent)
  /\ [](lock.writer # None => lock.readers = {})
  /\ [](\A c \in ClientIds :
          (pc[c] = "dispatch" /\ Request(c).type = "JoinRoom"
             /\ join_room(World, c, Request(c).room_id).ok) =>
            handle_join_room(
              join_room_left(World, c, Request(c).room_id),
              c, Request(c).room_id)
            = handle_join_room(World, c, Request(c).room_id))
  /\ [][Directory' # Directory =>
          \E c \in ClientIds :
            /\ lock.writer = Some(c)
            /\ \A d \in ClientIds \ {c} : pc'[d] = pc[d]]_vars

(* A room change caught in the middle: the mover holds the write lock, is  *)
(* a member of no room while its session still names the room it left,     *)
(* and the other handler is waiting for the lock with a request to read    *)
C25_Witness ==
  \E c, d \in Sessions :
    /\ c # d
    /\ pc[c] = "join_mid"
    /\ lock.writer = Some(c)
    /\ State(c).tag = "InRoom"
    /\ \A r \in DOMAIN rooms : c \notin Members(r)
    /\ ~Consistent
    /\ pc[d] \in {"check_wait", "dispatch_wait"}

(* The positions at which a handler holds a guard *)
Holding == {"add_client", "check", "dispatch", "join_mid", "report",
            "remove_client"}

(* c's handler is suspended on its socket: in read_exact, for the length   *)
(* or for the payload                                                      *)
SuspendedOnSocket(c) == pc[c] = "reading"

(* C26: no handler holds the directory lock, shared or exclusive, while it *)
(* is suspended on a socket read or write. A handler holds a guard only at *)
(* the positions between an acquisition and the end of the guard's scope,  *)
(* none of which is a socket operation; suspended in read_exact it holds   *)
(* none. The socket writes belong to the writer task, which never touches  *)
(* the lock and writes whoever holds it.                                   *)
C26_NoLockAcrossSocketIO ==
  /\ [](\A c \in ClientIds :
          /\ SuspendedOnSocket(c) => ~Holder(c)
          /\ Holder(c) <=> pc[c] \in Holding)
  /\ [][\A c \in ClientIds : WriteFrame(c) => lock' = lock]_vars

(* A handler is back in read_exact after an error frame it sent under the  *)
(* read lock, part of its queue is written out, and the other handler      *)
(* holds the write lock meanwhile                                          *)
C26_Witness ==
  \E c, d \in ClientIds :
    /\ c # d
    /\ SuspendedOnSocket(c)
    /\ Len(queue[c]) >= 2 /\ Len(socket[c]) = 1
    /\ queue[c][Len(queue[c])].message.type = "Error"
    /\ queue[c][Len(queue[c])].message.code = "InternalError"
    /\ lock.writer = Some(d)

-----------------------------------------------------------------------------
(* Handlers and writer tasks under the scheduling of the runtime: the      *)
(* handler's own steps happen when they can. What the peer sends, whether  *)
(* it closes its transport and whether a write fails is not the server's   *)
(* to decide.                                                              *)
FairWireSpec ==
  /\ WireSpec
  /\ \A c \in ClientIds :
       /\ WF_vars(Process(c))
       /\ WF_vars(SendTaskAborted(c))
       /\ WF_vars(Cleanup(c))

(* The writer task of c ended on a failed write: its receiver is gone      *)
(* while the handler has not left the reader loop                          *)
WriterDead(c) ==
  /\ c \in Sessions
  /\ c \notin rx
  /\ pc[c] \in {"reading", "checked"}

(* C27: when the writer task of a client ends because a socket write       *)
(* failed, teardown follows: the handler eventually leaves its loop and    *)
(* runs remove_client, so that the client does not stay registered with a  *)
(* dead writer.                                                            *)
C27_WriterFailureLeadsToRemoval ==
  \A c \in ClientIds : WriterDead(c) ~> (c \notin Sessions)

-----------------------------------------------------------------------------
(* A registered client whose channel has lost its receiver *)
DeadQueue(m) == m \in Sessions /\ m \in client_senders /\ m \notin rx

SendMessageDispatched(c) == Process(c) /\ Decoded(c, "SendMessage")

(* C28: a send on the channel of a registered client whose receiver is     *)
(* dropped fails silently in a broadcast: a SendMessage to a room with     *)
(* such a member still gives every live member its one copy, the dead      *)
(* member nothing, and the sender no error. In a private message to such a *)
(* client it is reported: nothing is delivered and the sender is sent an   *)
(* Error frame with code UserNotFound, followed by the InternalError of    *)
(* handle_client.                                                          *)
C28_DeadQueueSilentOrSurfaced ==
  [][\A c \in ClientIds :
       /\ ( /\ SendMessageDispatched(c)
            /\ State(c).tag = "InRoom"
            /\ \E m \in Members(State(c).room_id) : DeadQueue(m) )
          =>
          LET r == State(c).room_id IN
          /\ \A m \in Members(r) :
               IF m \in rx
               THEN /\ Len(Appended(m)) = 1
                    /\ Appended(m)[1].message.type = "RoomMessage"
                    /\ Appended(m)[1].message.from = State(c).username
               ELSE queue'[m] = queue[m]
          /\ Indices(Appended(c), "Error") = {}
          /\ pc'[c] = "reading"
       /\ ( /\ PrivateMessageDispatched(c)
            /\ Request(c).target_user # State(c).username
            /\ Request(c).target_user \in DOMAIN username_to_client
            /\ DeadQueue(username_to_client[Request(c).target_user])
            /\ c \in rx )
          =>
          /\ \A d \in DOMAIN queue \ {c} : queue'[d] = queue[d]
          /\ Len(Appended(c)) = 2
          /\ Appended(c)[1].message.type = "Error"
          /\ Appended(c)[1].message.code = "UserNotFound"
          /\ Appended(c)[2].message.type = "Error"
          /\ Appended(c)[2].message.code = "InternalError"]_vars

(* A private message to a client in its teardown window was answered       *)
(* UserNotFound: the target is still registered, its queue empty           *)
C28_Witness ==
  \E c, b \in Sessions :
    /\ c # b
    /\ pc[c] = "reading" /\ Decoded(c, "PrivateMessage")
    /\ Holds(b, Request(c).target_user)
    /\ DeadQueue(b)
    /\ queue[b] = <<>>
    /\ Len(queue[c]) = 2
    /\ queue[c][1].message.code = "UserNotFound"
    /\ queue[c][1].message.message =
         <<"Error sending private message to channel">>

-----------------------------------------------------------------------------
(* C29: the frames the server sends to one client carry strictly           *)
(* increasing sequence numbers: of two frames on a client's channel the    *)
(* later one has the greater number.                                       *)
C29_SequenceStrictlyIncreasing ==
  \A c \in ClientIds : \A i, j \in DOMAIN queue[c] :
    i < j => queue[c][i].sequence < queue[c][j].sequence

-----------------------------------------------------------------------------
(* C30: no Error frame with code InternalError is ever sent to a client    *)
(* whose session exists: rejected requests are answered with their own     *)
(* code only.                                                              *)
C30_NoInternalError ==
  \A c \in ClientIds : \A i \in DOMAIN queue[c] :
    ~( /\ queue[c][i].message.type = "Error"
       /\ queue[c][i].message.code = "InternalError" )

-----------------------------------------------------------------------------
(* The variants of Message meant for the client, sent to the server. Their *)
(* fields are left out: the arm that takes them reads none.                *)
ServerToClient ==
  {"ConnectAck", "ConnectError", "JoinRoomAck", "JoinRoomError",
   "UserJoined", "UserLeft", "RoomMessage", "PrivateMessageReceived",
   "RoomList", "UserList", "Error", "Pong"}

ServerFrames ==
  {[version |-> PROTOCOL_VERSION, size |-> MAX_MESSAGE_SIZE,
    message |-> [type |-> t]] : t \in ServerToClient}

DirectionNext ==
  \/ Next
  \/ \E c \in ClientIds : \E frame \in ServerFrames : ReadFrame(c, frame)

DirectionSpec == Init /\ [][DirectionNext]_vars

(* C31: a well-formed frame whose message is a server-to-client variant    *)
(* passes the precondition checks in every session state and is rejected   *)
(* at the dispatch with an Error frame of code InvalidFormat sent to its   *)
(* author; nothing is sent to anyone else and no session, room or registry *)
(* entry changes.                                                          *)
C31_WrongDirectionRejected ==
  [][\A c \in ClientIds :
       /\ \A f \in ServerFrames :
            ReadFrame(c, f) =>
              /\ pc'[c] = "checked"
              /\ queue' = queue
              /\ Directory' = Directory
       /\ ( /\ Process(c)
            /\ Request(c).type \in ServerToClient )
          =>
          /\ ~dispatch(World, Unwrap(buffer[c]), c).ok
          /\ Directory' = Directory
          /\ \A d \in ClientIds \ {c} : queue'[d] = queue[d]
          /\ c \in rx =>
               /\ Len(Appended(c)) >= 1
               /\ Appended(c)[1].message.type = "Error"
               /\ Appended(c)[1].message.code = "InvalidFormat"]_vars

(* A session not yet authenticated and a session in a room were each       *)
(* answered InvalidFormat for a frame of the wrong direction               *)
C31_Witness ==
  \E c, d \in Sessions :
    /\ State(c).tag = "Connected" /\ State(d).tag = "InRoom"
    /\ \A x \in {c, d} :
         /\ pc[x] = "reading"
         /\ buffer[x] # None /\ Request(x).type \in ServerToClient
         /\ Len(queue[x]) >= 1
         /\ queue[x][1].message.type = "Error"
         /\ queue[x][1].message.code = "InvalidFormat"
    /\ Request(c).type # Request(d).type

-----------------------------------------------------------------------------
(* The reference client (client.rs) at the other end of a connection.      *)
(* client_tasks[c] is                                                      *)
(*   input        where main is: "reading" lines, "join_send" at           *)
(*                send_task.await, "join_receive" at receive_task.await,   *)
(*                "returned" with Ok, "failed" with the Err of '?'         *)
(*   send_task, receive_task   "running" or "finished"                     *)
(*   rx_commands  the commands sent on the channel and not yet received    *)
(*   sent         the frames written to the stream, not yet read by the    *)
(*                server                                                   *)
(*   received     how many frames of the server receive_task has handled   *)
(*   typed        how many lines that make a command the user has typed    *)

(* What the client does not touch *)
server_vars ==
  <<clients, rooms, username_to_client, client_senders, queue, rx, pc,
    buffer, nevents, codec, socket, lock, result>>

(* Bounds: connections driven by a reference client, lines a user types *)
NumUsers == 1
MaxCommands == 2

Users == 1..NumUsers

(* ClientCommand, less Disconnect which only /quit makes *)
ClientCommands ==
  [type : {"Connect"}, username : Usernames]
    \cup [type : {"JoinRoom"}, room_id : RoomInputs]
    \cup [type : {"SendMessage"}, content : Contents]
    \cup [type : {"PrivateMessage"}, target_user : Usernames,
          content : Contents]
    \cup {[type |-> t] : t \in {"LeaveRoom", "ListRooms", "ListUsers", "Ping"}}

(* Mutant: /connect takes the name it asks for before the server answers *)
process_client_command_optimistic(command, state) ==
  [frame |-> ProtocolFrame_new(command, state.id, 0),
   state |-> IF command.type = "Connect"
             THEN [state EXCEPT !.username = Some(Text(command.username))]
             ELSE state]

(* process_client_command: every command is the message of the same name;  *)
(* the state is borrowed immutably and handed back as it was               *)
process_client_command(command, state) ==
  [frame |-> ProtocolFrame_new(command, state.id, 0), state |-> state]

(* frame.serialize() and the length prefix: what the server will decode *)
Written(frame) ==
  [version |-> frame.version, size |-> MAX_MESSAGE_SIZE,
   message |-> frame.message]

(* The lines typed so far that made a command *)
Typed(c) == client_tasks[c].typed

(* Input loop: a line that makes a command; tx_commands.send fails once    *)
(* send_task has ended and dropped rx_commands, and the loop is left       *)
Command(c, command) ==
  /\ client_tasks[c].input = "reading"
  /\ Typed(c) < MaxCommands
  /\ client_tasks' =
       IF client_tasks[c].send_task = "finished"
       THEN [client_tasks EXCEPT ![c].input = "join_send",
                                 ![c].typed = @ + 1]
       ELSE [client_tasks EXCEPT ![c].rx_commands = Append(@, command),
                                 ![c].typed = @ + 1]
  /\ UNCHANGED client_state
  /\ UNCHANGED server_vars

(* Input loop: /quit sends Disconnect and leaves the loop; '?' returns the *)
(* error of a failed send from main                                        *)
Quit(c) ==
  /\ client_tasks[c].input = "reading"
  /\ client_tasks' =
       IF client_tasks[c].send_task = "finished"
       THEN [client_tasks EXCEPT ![c].input = "failed"]
       ELSE [client_tasks EXCEPT
               ![c].rx_commands = Append(@, [type |-> "Disconnect"]),
               ![c].input = "join_send"]
  /\ UNCHANGED client_state
  /\ UNCHANGED server_vars

(* send_task: one turn of the loop, the command's frame is written *)
SendCommand(c) ==
  /\ client_tasks[c].send_task = "running"
  /\ client_tasks[c].rx_commands # <<>>
  /\ pc[c] # "closed"
  /\ LET r == process_client_command(Head(client_tasks[c].rx_commands),
                                     client_state[c]) IN
     /\ client_state' = [client_state EXCEPT ![c] = r.state]
     /\ client_tasks' =
          [client_tasks EXCEPT ![c].rx_commands = Tail(@),
                               ![c].sent = Append(@, Written(r.frame))]
  /\ UNCHANGED server_vars

(* send_task: write_all fails on a connection the server has closed; the   *)
(* loop is left, the task ends and rx_commands is dropped                  *)
SendFailed(c) ==
  /\ client_tasks[c].send_task = "running"
  /\ client_tasks[c].rx_commands # <<>>
  /\ pc[c] = "closed"
  /\ client_tasks' = [client_tasks EXCEPT ![c].rx_commands = <<>>,
                                          ![c].send_task = "finished"]
  /\ UNCHANGED client_state
  /\ UNCHANGED server_vars

(* receive_task: one frame is read, decoded and handled *)
Receive(c) ==
  /\ client_tasks[c].receive_task = "running"
  /\ client_tasks[c].received < Len(socket[c])
  /\ client_state' =
       [client_state EXCEPT
          ![c] = handle_server_message(@,
                   socket[c][client_tasks[c].received + 1])]
  /\ client_tasks' = [client_tasks EXCEPT ![c].received = @ + 1]
  /\ UNCHANGED server_vars

(* receive_task: read_exact fails at the end of a closed connection *)
ReceiveClosed(c) ==
  /\ client_tasks[c].receive_task = "running"
  /\ client_tasks[c].received = Len(socket[c])
  /\ pc[c] = "closed"
  /\ client_tasks' = [client_tasks EXCEPT ![c].receive_task = "finished"]
  /\ UNCHANGED client_state
  /\ UNCHANGED server_vars

(* main: send_task.await returns *)
JoinSend(c) ==
  /\ client_tasks[c].input = "join_send"
  /\ client_tasks[c].send_task = "finished"
  /\ client_tasks' = [client_tasks EXCEPT ![c].input = "join_receive"]
  /\ UNCHANGED client_state
  /\ UNCHANGED server_vars

(* main: receive_task.await returns, and main with Ok *)
JoinReceive(c) ==
  /\ client_tasks[c].input = "join_receive"
  /\ client_tasks[c].receive_task = "finished"
  /\ client_tasks' = [client_tasks EXCEPT ![c].input = "returned"]
  /\ UNCHANGED client_state
  /\ UNCHANGED server_vars

(* The server's reader takes the client's next request off the stream *)
ReadRequest(c) ==
  /\ client_tasks[c].sent # <<>>
  /\ ReadExact(c, Head(client_tasks[c].sent))
  /\ client_tasks' = [client_tasks EXCEPT ![c].sent = Tail(@)]
  /\ UNCHANGED client_state

(* A reference client on each connection of Users and the server's tasks   *)
(* for it; the peers of the other connections send nothing                 *)
ClientNext ==
  \E c \in Users :
    \/ \E command \in ClientCommands : Command(c, command)
    \/ Quit(c)
    \/ SendCommand(c)
    \/ SendFailed(c)
    \/ Receive(c)
    \/ ReceiveClosed(c)
    \/ JoinSend(c)
    \/ JoinReceive(c)
    \/ Accept(c)
    \/ ReadRequest(c)
    \/ Process(c)
    \/ WriteFrame(c)
    \/ ReadFailed(c)
    \/ SendTaskAborted(c)
    \/ Cleanup(c)

ClientSpec == Init /\ [][ClientNext]_vars

(* C32: the reference client changes its mirrored state (id, username,     *)
(* current_room, session_state) only while it handles a frame received    *)
(* from the server; typing a command and building and writing its request  *)
(* frame leave the mirrored state as it was.                               *)
C32_MirrorChangesOnlyOnReceive ==
  [][\A c \in Users :
       /\ client_state'[c] # client_state[c] => Receive(c)
       /\ (\E command \in ClientCommands : Command(c, command)) \/ Quit(c)
            \/ SendCommand(c) \/ SendFailed(c)
          => client_state'[c] = client_state[c]]_vars

(* /connect was answered and handled, /join is written and not yet         *)
(* answered: the client has a name and still no room                       *)
C32_Witness ==
  \E c \in Users :
    /\ client_tasks[c].received > 0
    /\ client_state[c].id = Some(c)
    /\ client_tasks[c].sent # <<>>
    /\ Head(client_tasks[c].sent).message.type = "JoinRoom"
    /\ client_state[c].current_room = None

-----------------------------------------------------------------------------
(* The frame is the Error of a protocol-level error, after which the       *)
(* reader loop is left                                                     *)
FatalError(frame) ==
  /\ frame.message.type = "Error"
  /\ \/ frame.message.code = "MessageTooLarge"
     \/ /\ frame.message.code = "InvalidFormat"
        /\ frame.message.message[1] = "Invalid message format"

(* C33: the Error frame the reader loop enqueues to its own client just     *)
(* before it ends the connection (MessageTooLarge, InvalidFormat of a       *)
(* decode failure) is written to the client's socket before the writer      *)
(* task is stopped: once the writer of c is gone, every such frame of c's   *)
(* channel is among the frames written.                                     *)
C33_FatalErrorWrittenBeforeAbort ==
  \A c \in ClientIds :
    LoopExited(c) /\ c \notin rx =>
      \A i \in DOMAIN queue[c] :
        FatalError(queue[c][i]) => i <= Len(socket[c])

-----------------------------------------------------------------------------
(* The RoomMessage frame of a SendMessage of c, as c's session stands *)
RoomMessageOf(c) ==
  ProtocolFrame_new([type |-> "RoomMessage",
                     from |-> Unwrap(clients[c].username),
                     content |-> Request(c).content,
                     room_id |-> Unwrap(clients[c].current_room)],
                    None, 0)

(* C34: the RoomMessage of a SendMessage from c carries c's authenticated   *)
(* username and c's current room as they are at the broadcast, and is       *)
(* enqueued, once, on the queue of every member of that room at that        *)
(* moment, c's own included, and on no other queue.                         *)
C34_RoomMessageToExactlyMembers ==
  [][\A c \in ClientIds :
       SendMessageDispatched(c) =>
         \A m \in ClientIds :
           IF m \in Members(Unwrap(clients[c].current_room))
           THEN Appended(m) = <<RoomMessageOf(c)>>
           ELSE queue'[m] = queue[m]]_vars

(* C34, amended: the members that get the frame are those whose channel is  *)
(* still open; a member whose receiver is dropped (its writer task ended or *)
(* was aborted, its session not yet removed) gets nothing, like a client    *)
(* outside the room.                                                       *)
C34_RoomMessageToExactlyLiveMembers ==
  [][\A c \in ClientIds :
       SendMessageDispatched(c) =>
         /\ State(c) = InRoom(Unwrap(clients[c].username),
                              Unwrap(clients[c].current_room))
         /\ \A m \in ClientIds :
              IF m \in Members(Unwrap(clients[c].current_room)) /\ m \in rx
              THEN Appended(m) = <<RoomMessageOf(c)>>
              ELSE queue'[m] = queue[m]]_vars

(* A SendMessage was broadcast: its sender has the RoomMessage, a client    *)
(* outside the room has received nothing                                   *)
C34_Witness ==
  \E c, m \in Sessions :
    /\ c # m
    /\ pc[c] = "reading" /\ Decoded(c, "SendMessage")
    /\ State(c).tag = "InRoom"
    /\ State(m).tag # "InRoom"
    /\ queue[c] # <<>>
    /\ queue[c][Len(queue[c])].message.type = "RoomMessage"
    /\ queue[c][Len(queue[c])].message.from = State(c).username
    /\ queue[m] = <<>>

-----------------------------------------------------------------------------
(* On every queue, a RoomMessage from u in r that comes after a UserLeft    *)
(* of u and r has, between the two, the UserJoined of u's return or the     *)
(* JoinRoomAck of the queue owner's own later entry into r                  *)
LeftThenHeard(m, i, j) ==
  /\ i < j
  /\ queue[m][i].message.type = "UserLeft"
  /\ queue[m][j].message.type = "RoomMessage"
  /\ queue[m][j].message.from = queue[m][i].message.username
  /\ queue[m][j].message.room_id = queue[m][i].message.room_id

BackBetween(m, i, j) ==
  \E k \in DOMAIN queue[m] :
    /\ i < k /\ k < j
    /\ \/ queue[m][k].message =
            UserJoined(queue[m][i].message.username,
                       queue[m][i].message.room_id)
       \/ /\ queue[m][k].message.type = "JoinRoomAck"
          /\ queue[m][k].message.room_id = queue[m][i].message.room_id

(* A RoomMessage is only enqueued for a client whose current room is the    *)
(* message's, and comes from a session that is in that room under that name *)
HeardByMembersFromMembers ==
  \A m \in ClientIds :
    \A i \in Indices(Appended(m), "RoomMessage") :
      LET f == Appended(m)[i].message IN
      /\ m \in Sessions
      /\ clients[m].current_room = Some(f.room_id)
      /\ \E c \in Sessions : State(c) = InRoom(f.from, f.room_id)

(* The step that makes c a member of r enqueues the JoinRoomAck for c and   *)
(* the UserJoined for every member already there, and nothing else for them *)
EntryAnnounced ==
  \A c \in Sessions : \A r \in RoomIds :
    c \notin Members(r) /\ c \in DOMAIN rooms'[r].users =>
      /\ c \in rx =>
           /\ Len(Appended(c)) = 1
           /\ Appended(c)[1].message.type = "JoinRoomAck"
           /\ Appended(c)[1].message.room_id = r
      /\ \A m \in Members(r) :
           m \in rx =>
             Appended(m) =
               <<ProtocolFrame_new(
                   UserJoined(Unwrap(clients'[c].username), r), None, 0)>>

(* After a step that enqueues UserLeft for u and r, no session named u is   *)
(* in r, unless the same step put u back and says so right after            *)
LeftMeansGone ==
  \A m \in ClientIds :
    \A i \in Indices(Appended(m), "UserLeft") :
      LET f == Appended(m)[i].message IN
      \/ \A c \in DOMAIN clients' :
           ~( /\ clients'[c].username = Some(f.username)
              /\ c \in DOMAIN rooms'[f.room_id].users )
      \/ \E k \in DOMAIN Appended(m) :
           k > i /\ Appended(m)[k].message = UserJoined(f.username, f.room_id)

(* C35: on every member's queue the notifications about a client are in     *)
(* the order of its membership: the UserJoined of u for r is enqueued, in    *)
(* the step of the join, before any RoomMessage u sends to r afterwards;    *)
(* the joiner's JoinRoomAck is enqueued in that step too, before any        *)
(* RoomMessage of r reaches the joiner; and no RoomMessage from u in r      *)
(* follows a UserLeft of u and r unless u came back in between.             *)
C35_NotificationsFollowMembership ==
  /\ [](\A m \in ClientIds : \A i, j \in DOMAIN queue[m] :
          LeftThenHeard(m, i, j) => BackBetween(m, i, j))
  /\ [][HeardByMembersFromMembers /\ EntryAnnounced /\ LeftMeansGone]_vars

(* A member's queue holds the UserJoined of a newcomer and then the         *)
(* newcomer's RoomMessage; the newcomer's own holds its ack, then the       *)
(* message                                                                 *)
C35_Witness ==
  \E c, m \in Sessions :
    /\ c # m
    /\ State(c).tag = "InRoom"
    /\ Len(queue[m]) = 2 /\ Len(queue[c]) = 2
    /\ queue[m][1].message = UserJoined(State(c).username, State(c).room_id)
    /\ queue[m][2].message.type = "RoomMessage"
    /\ queue[m][2].message.from = State(c).username
    /\ queue[c][1].message.type = "JoinRoomAck"
    /\ queue[c][2] = queue[m][2]

-----------------------------------------------------------------------------
(* The steps a handler takes by itself once a connection or a frame has    *)
(* come in: it asks for the lock, works under the guard, lets it go         *)
HandlerStep(c) ==
  \/ AddClient(c)
  \/ CheckLock(c)
  \/ Check(c)
  \/ DispatchLock(c)
  \/ Dispatch(c)
  \/ JoinEnter(c)
  \/ ReportLock(c)
  \/ Report(c)
  \/ CleanupLock(c)
  \/ RemoveClient(c)

(* The handlers under the scheduling of the runtime: a handler that can     *)
(* take a step of its own does take it. The model's behaviours being        *)
(* finite, this is all the fairness the lock's queue has to provide here.   *)
FairLockSpec ==
  /\ Init /\ [][HandlerNext]_vars
  /\ \A c \in ClientIds : WF_vars(HandlerStep(c))

(* c's handler is at a state.read().await or state.write().await *)
Waiting(c) ==
  \/ pc[c] \in {"check_wait", "report_wait", "cleanup"}
  \/ pc[c] = "dispatch_wait" /\ Request(c).type # "Disconnect"

(* The step in which c is granted a guard *)
Acquires(c) == ~Holder(c) /\ Holder(c)'

(* C36: the server's use of the directory lock is deadlock-free. A handler  *)
(* asks for the lock only while it holds no guard on it; it holds a guard   *)
(* only between an acquisition and the end of the guard's scope, whichever  *)
(* way the scope is left; and under fair scheduling every handler waiting   *)
(* for the lock, the write lock of the cleanup included, obtains it.        *)
C36_LockDeadlockFree ==
  /\ [](\A c \in ClientIds :
          /\ Waiting(c) => ~Holder(c)
          /\ Holder(c) => pc[c] \in Holding
          /\ lock.writer # None => lock.readers = {})
  /\ [][\A c \in ClientIds :
          /\ Acquires(c) => Waiting(c) \/ pc[c] = "idle"
          /\ pc[c] \in Holding /\ pc'[c] \notin Holding => ~Holder(c)']_vars
  /\ \A c \in ClientIds : Waiting(c) ~> Holder(c)

(* A handler waits for the write lock of its cleanup while another holds a  *)
(* guard                                                                   *)
C36_Witness ==
  \E c, d \in ClientIds :
    /\ c # d
    /\ pc[c] = "cleanup"
    /\ Holder(d)

-----------------------------------------------------------------------------
(* The server's session of c, its Strings as the client holds them *)
ServerView(c) ==
  LET lift(o) == IF o = None THEN None ELSE Some(Text(Unwrap(o)))
      s == State(c)
  IN [username |-> lift(clients[c].username),
      current_room |-> clients[c].current_room,
      session_state |->
        CASE s.tag = "Authenticated" -> Authenticated(Text(s.username))
          [] s.tag = "InRoom" -> InRoom(Text(s.username), s.room_id)
          [] OTHER -> s]

(* What the client holds of its session *)
ClientView(c) ==
  [username |-> client_state[c].username,
   current_room |-> client_state[c].current_room,
   session_state |-> client_state[c].session_state]

(* Every request of c was read and processed by the server, every frame     *)
(* the server enqueued for c was written, and the client has handled it     *)
Settled(c) ==
  /\ c \in Sessions /\ c \in rx
  /\ pc[c] = "reading"
  /\ client_tasks[c].sent = <<>>
  /\ client_tasks[c].received = Len(queue[c])

(* C37: once the reference client has handled every frame the server sent   *)
(* in answer to its requests, its session_state, username and current_room  *)
(* are those of the server's session for the connection; so after a Connect *)
(* that succeeded or failed, a JoinRoom and a LeaveRoom.                    *)
C37_MirrorEqualsSession ==
  [][\A c \in Users :
       ~Settled(c) /\ Settled(c)' => ClientView(c)' = ServerView(c)']_vars

-----------------------------------------------------------------------------
(* The client's tasks and the server's tasks for it under the scheduling of *)
(* their runtimes: a task that can take a step does take it. What the user  *)
(* types and whether the transport fails is left open.                      *)
FairClientSpec ==
  /\ ClientSpec
  /\ \A c \in Users :
       /\ WF_vars(SendCommand(c) \/ SendFailed(c))
       /\ WF_vars(Receive(c) \/ ReceiveClosed(c))
       /\ WF_vars(JoinSend(c) \/ JoinReceive(c))
       /\ WF_vars(ReadRequest(c) \/ Process(c) \/ Cleanup(c))
       /\ WF_vars(WriteFrame(c))

(* /quit was typed: Disconnect is on the command channel or beyond, main    *)
(* is at send_task.await                                                    *)
QuitTyped(c) ==
  /\ client_tasks[c].input = "join_send"
  /\ client_tasks[c].send_task = "running"

(* The connection of c is as the server found it: no read has failed *)
Healthy(c) == pc[c] \in {"reading", "checked"}

(* C38: after the user enters /quit the reference client terminates: the    *)
(* Disconnect request is sent, send_task and receive_task finish and main   *)
(* returns, as long as the connection stays healthy.                        *)
C38_QuitTerminates ==
  \A c \in Users :
    QuitTyped(c) ~>
      \/ /\ client_tasks[c].input = "returned"
         /\ client_tasks[c].send_task = "finished"
         /\ client_tasks[c].receive_task = "finished"
      \/ ~Healthy(c)

-----------------------------------------------------------------------------
(* The sessions that are InRoom for r, and those whose current room is r *)
InRoomFor(r) ==
  {s \in Sessions : State(s).tag = "InRoom" /\ State(s).room_id = r}
Occupants(r) == {s \in Sessions : clients[s].current_room = Some(r)}

(* The step changes nothing but c's channel *)
OnlyAnswers(c) ==
  /\ UNCHANGED <<clients, rooms, username_to_client, client_senders, rx>>
  /\ \A m \in ClientIds \ {c} : queue'[m] = queue[m]

(* C39: ListRooms answers with one entry for every existing room, its       *)
(* count the number of sessions InRoom for that room; ListUsers answers     *)
(* with exactly the usernames of the sessions whose current room is the     *)
(* caller's, the caller's own included; neither changes any state.          *)
C39_ListsTellTheDirectory ==
  [][\A c \in ClientIds :
       /\ Process(c) /\ Decoded(c, "ListRooms") =>
            /\ OnlyAnswers(c)
            /\ Len(Appended(c)) = 1
            /\ Appended(c)[1].message.type = "RoomList"
            /\ Appended(c)[1].message.rooms =
                 [r \in DOMAIN rooms |-> Cardinality(InRoomFor(r))]
       /\ Process(c) /\ Decoded(c, "ListUsers") =>
            LET room_id == Unwrap(clients[c].current_room)
                names == {Unwrap(clients[s].username) :
                            s \in Occupants(room_id)}
            IN /\ OnlyAnswers(c)
               /\ Len(Appended(c)) = 1
               /\ Appended(c)[1].message.type = "UserList"
               /\ Appended(c)[1].message.room_id = room_id
               /\ c \in Occupants(room_id)
               /\ Appended(c)[1].message.users =
                    [u \in names |->
                       Cardinality({s \in Occupants(room_id) :
                                      clients[s].username = Some(u)})]]_vars

(* In a room of two, one member asked for the rooms and then for the users  *)
C39_Witness ==
  \E c \in Sessions :
    /\ pc[c] = "reading"
    /\ Len(queue[c]) = 2
    /\ queue[c][1].message.type = "RoomList"
    /\ queue[c][1].message.rooms["general"] = 2
    /\ queue[c][1].message.rooms["tech"] = 0
    /\ queue[c][2].message.type = "UserList"
    /\ DOMAIN queue[c][2].message.users = {"alice", "bob"}

-----------------------------------------------------------------------------
(* The step of c's handler for a JoinRoom that names the room c is in *)
JoinsOwnRoom(c) ==
  /\ Process(c)
  /\ Decoded(c, "JoinRoom")
  /\ clients[c].current_room = Some(Request(c).room_id)

(* C40: a JoinRoom naming the room the client is already in leaves the      *)
(* client's membership and session state as they were, and no UserLeft or   *)
(* UserJoined about the client is sent to the other members of the room.    *)
C40_RejoinIsSilent ==
  [][\A c \in ClientIds :
       JoinsOwnRoom(c) =>
         /\ clients'[c] = clients[c]
         /\ rooms' = rooms
         /\ \A m \in ClientIds \ {c} :
              \A i \in DOMAIN Appended(m) :
                Appended(m)[i].message.type \in {"UserLeft", "UserJoined"}
                  => Appended(m)[i].message.username
                       # Unwrap(clients[c].username)]_vars

=============================================================================
